---- MODULE Spec2Model ----
(***************************************************************************)
(* StudyMate.Ai: the view controllers (FlashcardGenerator, StudyPlanner,   *)
(* Dashboard, DoubtSolver), the record store they talk to, the             *)
(* 'dashboard-updates' broadcast channel and the generate-flashcards       *)
(* proxy, as state machines.                                               *)
(*                                                                         *)
(* Every async handler is cut at its awaits.  A handler invocation is a    *)
(* record in a table of calls: it is created by the handler's synchronous  *)
(* prefix, which captures the values of the React state the closure sees   *)
(* (state read inside a handler is the state of the render that created    *)
(* the handler, not the current one), the store then commits or rejects    *)
(* the request, and the continuation runs up to the next await.            *)
(***************************************************************************)
EXTENDS Integers, Sequences, FiniteSets, TLC

\* ---------------------------------------------------------------- bounds
MaxCalls == 2          \* handler invocations in flight per view
MaxOps == 4            \* user actions issued per view
MaxBatch == 2          \* cards in one generated batch
MaxDeckRows == 2       \* rows of flashcard_decks
MaxCardRows == 4       \* rows of flashcards
MaxSessionRows == 3    \* rows of study_sessions inserted by the view
MaxPlannerCalls == 2   \* StudyPlanner handlers in flight at once
MaxPlannerOps == 2     \* handlers the user starts in StudyPlanner
MaxAggSessions == 2    \* sessions of the subject whose aggregate is computed
MaxDashCalls == 2      \* Dashboard calls in flight at once
MaxDoubtCalls == 2     \* DoubtSolver handlers in flight at once
MaxDoubtOps == 2       \* handlers the user starts in DoubtSolver
MaxDoubtRows == 2      \* rows of table doubts
MaxTextLen == 5        \* tokens of a generated text
MaxBroadcasts == 2      \* events other pages send while the Dashboard is open
MaxInvocations == 2    \* proxy calls the two generation forms issue

\* ------------------------------------------------------- sequence helpers
Range(s) == {s[i] : i \in DOMAIN s}

RECURSIVE SelectSeqBy(_, _)
\* Array.prototype.filter, keeping the elements whose id is in keep
SelectSeqBy(s, keep) ==
    IF s = <<>> THEN <<>>
    ELSE IF Head(s).id \in keep THEN <<Head(s)>> \o SelectSeqBy(Tail(s), keep)
         ELSE SelectSeqBy(Tail(s), keep)

\* Array.prototype.map replacing the element whose id is r.id by r
ReplaceById(s, r) == [i \in DOMAIN s |-> IF s[i].id = r.id THEN r ELSE s[i]]

Ids(s) == {s[i].id : i \in DOMAIN s}

\* =========================================================================
\*  IEEE 754 double arithmetic, as far as the progress aggregates use it:
\*  x / y, x + y, x * y on non-negative doubles (round to nearest, ties to
\*  even) and Math.round.  A natural number is a sequence of limbs, least
\*  significant first; a double is <<m, e>> with value m * 2^e and
\*  2^52 <= m < 2^53, or <<<<>>, 0>> for zero.
\* =========================================================================
LimbBits == 20
LimbBase == 1024 * 1024
MantBits == 53

RECURSIVE Pow2(_)
Pow2(n) == IF n = 0 THEN 1 ELSE 2 * Pow2(n - 1)

RECURSIVE BigNorm(_)
BigNorm(a) == IF a # <<>> /\ a[Len(a)] = 0 THEN BigNorm(SubSeq(a, 1, Len(a) - 1)) ELSE a

BigFromInt(n) == IF n = 0 THEN <<>> ELSE <<n>>
BigToInt(a) == IF a = <<>> THEN 0 ELSE a[1]

RECURSIVE BigMulCarry(_, _, _)
BigMulCarry(a, k, carry) ==
    IF a = <<>> THEN BigFromInt(carry)
    ELSE LET t == Head(a) * k + carry
         IN <<t % LimbBase>> \o BigMulCarry(Tail(a), k, t \div LimbBase)
\* a * k, for 0 < k <= 1024
BigMulSmall(a, k) == BigMulCarry(a, k, 0)

RECURSIVE BigDivAt(_, _, _, _)
BigDivAt(a, d, i, rem) ==
    IF i = 0 THEN <<<<>>, rem>>
    ELSE LET cur == rem * LimbBase + a[i]
             rest == BigDivAt(a, d, i - 1, cur % d)
         IN <<Append(rest[1], cur \div d), rest[2]>>
\* <<a div d, a mod d>>, for 0 < d <= 1024
BigDivSmall(a, d) ==
    LET r == BigDivAt(a, d, Len(a), 0) IN <<BigNorm(r[1]), r[2]>>

RECURSIVE BigAddCarry(_, _, _)
BigAddCarry(a, b, carry) ==
    IF a = <<>> /\ b = <<>> THEN BigFromInt(carry)
    ELSE LET x == IF a = <<>> THEN 0 ELSE Head(a)
             y == IF b = <<>> THEN 0 ELSE Head(b)
             t == x + y + carry
         IN <<t % LimbBase>> \o BigAddCarry(IF a = <<>> THEN a ELSE Tail(a),
                                            IF b = <<>> THEN b ELSE Tail(b),
                                            t \div LimbBase)
BigAdd(a, b) == BigNorm(BigAddCarry(a, b, 0))

RECURSIVE IntBitLen(_)
IntBitLen(n) == IF n = 0 THEN 0 ELSE 1 + IntBitLen(n \div 2)
BigBitLen(a) == IF a = <<>> THEN 0 ELSE (Len(a) - 1) * LimbBits + IntBitLen(a[Len(a)])

Zeros(n) == [i \in 1..n |-> 0]
\* a * 2^s
BigShiftLeft(a, s) ==
    IF a = <<>> THEN a
    ELSE LET r == s % LimbBits
             lo == IF r > 10 THEN 10 ELSE r
         IN Zeros(s \div LimbBits) \o BigNorm(BigMulSmall(BigMulSmall(a, Pow2(lo)), Pow2(r - lo)))

\* <<a div 2^k, whether a bit shifted out was set>>, in stages: whole limbs
\* are dropped, then the rest is divided by 2^lo and by 2^(r - lo)
ShiftedOut(d2, lost) == <<d2[1], lost \/ d2[2] # 0>>
ShiftSecond(d1, r, lost) == ShiftedOut(BigDivSmall(d1[1], Pow2(r)), lost \/ d1[2] # 0)
ShiftFirst(kept, r, lo, lost) == ShiftSecond(BigDivSmall(kept, Pow2(lo)), r - lo, lost)
DroppedLimbs(a, k) == IF k \div LimbBits < Len(a) THEN k \div LimbBits ELSE Len(a)
BigShiftRight(a, k) ==
    ShiftFirst(SubSeq(a, DroppedLimbs(a, k) + 1, Len(a)), k % LimbBits,
               IF k % LimbBits > 10 THEN 10 ELSE k % LimbBits,
               \E i \in 1..DroppedLimbs(a, k) : a[i] # 0)

DoubleZero == <<<<>>, 0>>
\* a mantissa that the rounding carried to 2^53 is halved
RoundCarry(m, e) ==
    IF BigBitLen(m) > MantBits THEN <<BigDivSmall(m, 2)[1], e + 1>> ELSE <<m, e>>
\* half = <<mantissa, guard bit>>: round to nearest, ties to even
RoundHalf(half, sticky, e) ==
    RoundCarry(IF half[2] = 1 /\ (sticky \/ half[1][1] % 2 = 1)
               THEN BigNorm(BigAdd(half[1], <<1>>)) ELSE half[1], e)
\* sh = <<the mantissa with one more bit, the guard bit; whether bits were lost>>
RoundGuarded(sh, inexact, e) == RoundHalf(BigDivSmall(sh[1], 2), sh[2] \/ inexact, e)
\* qr = <<quotient, remainder>>
RoundQuotient(qr, e) ==
    RoundGuarded(BigShiftRight(qr[1], BigBitLen(qr[1]) - MantBits - 1), qr[2] # 0,
                 e + BigBitLen(qr[1]) - MantBits)
\* the shift that gives the dividend 76 bits
NormShift(n) == IF BigBitLen(n) < 76 THEN 76 - BigBitLen(n) ELSE 0
\* the double nearest to n / d * 2^e (ties to even), n a natural, 0 < d <= 1024
RoundToDouble(n, d, e) ==
    IF n = <<>> THEN DoubleZero
    ELSE RoundQuotient(BigDivSmall(BigShiftLeft(n, NormShift(n)), d), e - NormShift(n))

DoubleFromInt(n) == RoundToDouble(BigFromInt(n), 1, 0)
\* x / d for an integer 0 < d <= 1024
DoubleDivInt(x, d) == RoundToDouble(x[1], d, x[2])
\* x * k for an integer 0 < k <= 1024
DoubleMulInt(x, k) == RoundToDouble(BigMulSmall(x[1], k), 1, x[2])
\* x + y
DoubleAdd(x, y) ==
    IF x = DoubleZero THEN y
    ELSE IF y = DoubleZero THEN x
    ELSE LET e == IF x[2] < y[2] THEN x[2] ELSE y[2]
         IN RoundToDouble(BigAdd(BigShiftLeft(x[1], x[2] - e), BigShiftLeft(y[1], y[2] - e)), 1, e)
\* Math.round(x): the integer nearest to x, ties towards +Infinity
MathRound(x) ==
    IF x = DoubleZero THEN 0
    ELSE IF x[2] >= 0 THEN BigToInt(BigShiftLeft(x[1], x[2]))
    ELSE BigToInt(BigShiftRight(BigAdd(x[1], BigShiftLeft(<<1>>, (0 - x[2]) - 1)),
                                0 - x[2])[1])

\* ---- the per-subject aggregate (Dashboard.tsx 137-152 and 353-371): the
\* sessions are folded in the order of the array
RECURSIVE CompletedSessions(_)
\* data.forEach(...) accumulating completedSessions, a double
CompletedSessions(list) ==
    IF list = <<>> THEN DoubleZero
    ELSE LET front == CompletedSessions(SubSeq(list, 1, Len(list) - 1))
             session == list[Len(list)]
         IN IF session.completed THEN DoubleAdd(front, DoubleFromInt(1))
            ELSE IF session.progress > 0
                 THEN DoubleAdd(front, DoubleDivInt(DoubleFromInt(session.progress), 100))
                 ELSE front

\* Math.round(total > 0 ? (completed / total) * 100 : 0)
SubjectProgressOf(list) ==
    IF Len(list) > 0
    THEN MathRound(DoubleMulInt(DoubleDivInt(CompletedSessions(list), Len(list)), 100))
    ELSE 0

VARIABLES
    \* ---- record store: flashcards
    flashcard_decks,   \* set of deck rows [id, name, subject]
    flashcards,        \* set of card rows [id, deck_id, front, back]
    \* ---- FlashcardGenerator view
    decks,             \* useState<FlashcardDeck[]>
    selectedDeck,      \* useState<FlashcardDeck | null>
    fgCalls,           \* handler invocations in flight
    fgToast,           \* last notification shown by the view
    fgOps,             \* user actions issued so far
    fgLog,             \* history: the handlers that ran to their success notification
    fgLoading,         \* loading
    \* ---- environment of the browser
    tz,                \* offset of local time from UTC, in hours
    \* ---- record store: study sessions
    study_sessions,    \* set of rows of the table
    sessionSeq,        \* rows inserted so far (ids are never reused)
    \* ---- StudyPlanner view
    studySessions,     \* useState<StudySession[]>
    plLoading,         \* loading
    plCalls,           \* handler invocations in flight
    plToast,           \* last notification shown, with its undo action if it has one
    plOps,             \* user actions issued so far
    \* ---- broadcast channel 'dashboard-updates'
    published,         \* history: the events sent, in order
    \* ---- the progress aggregate of one subject, computed both ways
    aggRows,           \* the subject's rows of study_sessions, in the order read
    aggLoad,           \* progress computed by fetchDashboardData
    aggUpdate,         \* progress computed by updateSubjectProgress
    \* ---- the doubts store
    doubtsTable,       \* rows of table doubts
    doubt_messages,    \* rows of table doubt_messages
    storeClock,        \* the store's clock: the timestamp of the next insert
    \* ---- DoubtSolver
    doubts,            \* the doubts with their messages
    selectedDoubt,     \* the doubt shown, or NoDoubt
    newQuestion,       \* text of the question input
    newMessage,        \* text of the message input
    isGenerating,
    dsLoading,         \* loading
    dsCalls,           \* handler invocations in flight
    dsToast,           \* last notification of the DoubtSolver
    dsLog,             \* history: how each user action ended
    dsPublished,       \* history: the doubt events sent to the channel
    dsOps,             \* handlers the user has started
    \* ---- generate-flashcards proxy
    pxRequest,         \* the request: whether the API key is set, the text
    pxUpstream,        \* the answer of the model API: ok, has a text
    generatedText,     \* the text the model generated
    pxPc,              \* start, fetch, done
    pxResponse,        \* the response of the function
    \* ---- Dashboard (open in another tab, on the same store)
    dbLoading,         \* loading
    upcomingStudySessions,
    recentDoubts,
    studyProgress,     \* per subject: progress, totalSessions, completedSessions
    updatingProgress,  \* the subject whose bar is animated, or NULL
    dbCalls,           \* fetchDashboardData / updateSubjectProgress calls in flight
    dbToast,           \* title of the last notification of the Dashboard
    dbTimers,          \* pending setTimeout callbacks that reset updatingProgress
    dbMounted,         \* the Dashboard is mounted and subscribed to 'dashboard-updates'
    delivered,         \* number of broadcast events the Dashboard has received
    \* ---- UploadNotesSection (the form that generates flashcards)
    notes,             \* the text of the notes field
    uploadedFile,      \* a PDF is attached
    isLoading,         \* a generate-flashcards call is in flight
    unRequest,         \* the text that call carries
    unToast,           \* title of the last notification of the form
    \* ---- NotesSummarizer
    inputText,         \* the text of the input field
    nsUploadedFile,    \* a PDF is attached
    nsExtracting,      \* extractTextFromPDF has not resolved yet
    nsIsGenerating,    \* a summarize-notes call is in flight
    nsRequest,         \* the text that call carries
    summaryText,       \* the summary shown
    nsError,           \* the error shown, or NULL
    nsToast,           \* title of the last notification of the page
    invoked            \* the proxy calls issued so far: function and text

fgVars == <<flashcard_decks, flashcards, decks, selectedDeck, fgCalls, fgToast, fgOps, fgLog,
            fgLoading>>
plVars == <<tz, study_sessions, sessionSeq, studySessions, plLoading, plCalls, plToast,
            plOps, published>>
aggVars == <<aggRows, aggLoad, aggUpdate>>
dbVars == <<dbLoading, upcomingStudySessions, recentDoubts, studyProgress, updatingProgress,
            dbCalls, dbToast, dbTimers, dbMounted, delivered>>
pxVars == <<pxRequest, pxUpstream, generatedText, pxPc, pxResponse>>
dsStore == <<doubtsTable, doubt_messages, storeClock>>
dsView == <<doubts, selectedDoubt, newQuestion, newMessage, isGenerating, dsLoading, dsToast,
            dsLog, dsPublished>>
dsVars == <<dsStore, dsView, dsCalls, dsOps>>
unVars == <<notes, uploadedFile, isLoading, unRequest, unToast>>
nsVars == <<inputText, nsUploadedFile, nsExtracting, nsIsGenerating, nsRequest, summaryText,
            nsError, nsToast>>
fmVars == <<unVars, nsVars, invoked>>
vars == <<fgVars, plVars, aggVars, dbVars, dsVars, pxVars, fmVars>>

\* the pages share no client state: a step of one page leaves the others alone
OnlyFlash == UNCHANGED <<plVars, aggVars, dbVars, dsVars, pxVars, fmVars>>
OnlyPlanner == UNCHANGED <<fgVars, aggVars, dbVars, dsVars, pxVars, fmVars>>
OnlyDashboard == UNCHANGED <<fgVars, plVars, aggVars, dsVars, pxVars, fmVars>>
OnlyAggregate == UNCHANGED <<fgVars, plVars, dbVars, dsVars, pxVars, fmVars>>
OnlyDoubt == UNCHANGED <<fgVars, plVars, aggVars, dbVars, pxVars, fmVars>>
OnlyProxy == UNCHANGED <<fgVars, plVars, aggVars, dbVars, dsVars, fmVars>>
OnlyForms == UNCHANGED <<fgVars, plVars, aggVars, dbVars, dsVars, pxVars>>

\* =========================================================================
\*  FlashcardGenerator
\* =========================================================================
NoDeck == [id |-> 0, name |-> "", subject |-> "", totalCards |-> 0, flashcards |-> <<>>]
NoToast == [title |-> "", variant |-> ""]
DeckNames == {"Deck"}
Subjects == {"Math"}
\* the {front, back} pairs the generation proxy hands to the view
GenCards == {[front |-> "q", back |-> "a"]}
GenBatches == UNION {[1..n -> GenCards] : n \in 1..MaxBatch}

\* from: the user action the invocation serves; n: the cards it was given
FgIdle == [op |-> "idle", pc |-> "idle", cDecks |-> <<>>, cSel |-> NoDeck,
           arg |-> NoDeck, batch |-> <<>>, resp |-> <<>>, err |-> FALSE,
           from |-> "", n |-> 0, done |-> 0]

\* ids the store hands out: one more than the largest id in the table
NextDeckId == Cardinality(flashcard_decks) + 1
NextCardId(rows) == IF rows = {} THEN 101
                    ELSE 1 + CHOOSE m \in {r.id : r \in rows} : \A r \in rows : r.id <= m

RECURSIVE InsertCards(_, _, _)
\* supabase.from('flashcards').insert(cards): one row per card, fresh ids;
\* returns <<table, inserted rows in order>>
InsertCards(rows, deckId, cards) ==
    IF cards = <<>> THEN <<rows, <<>>>>
    ELSE LET row == [id |-> NextCardId(rows), deck_id |-> deckId,
                     front |-> Head(cards).front, back |-> Head(cards).back]
             rest == InsertCards(rows \cup {row}, deckId, Tail(cards))
         IN <<rest[1], <<row>> \o rest[2]>>

FgQuiet == \A i \in 1..MaxCalls : fgCalls[i].pc = "idle"
\* the ids a card of the view can carry: a store id or a clock reading
CardIds == (101..(100 + MaxCardRows)) \cup ((0 - MaxOps)..(0 - 1))

FreeFgSlot == CHOOSE i \in 1..MaxCalls : fgCalls[i].pc = "idle" /\ \A j \in 1..(i-1) : fgCalls[j].pc # "idle"
HasFreeFgSlot == \E i \in 1..MaxCalls : fgCalls[i].pc = "idle"

\* ---- handleCreateDeck (FlashcardGenerator.tsx 83-124)
CreateDeckStart(name, subject) ==
    /\ HasFreeFgSlot /\ fgOps < MaxOps /\ fgOps' = fgOps + 1
    /\ Cardinality(flashcard_decks) + Cardinality({i \in 1..MaxCalls : fgCalls[i].op = "createDeck"}) < MaxDeckRows
    /\ fgCalls' = [fgCalls EXCEPT ![FreeFgSlot] =
            [FgIdle EXCEPT !.op = "createDeck", !.pc = "insertDeck", !.cDecks = decks,
                           !.from = "createDeck",
                           !.cSel = selectedDeck,
                           !.arg = [NoDeck EXCEPT !.name = name, !.subject = subject]]]
    /\ UNCHANGED <<flashcard_decks, flashcards, decks, selectedDeck, fgToast, fgLog>>

\* the store commits (ok) or rejects the insert of the deck row
CreateDeckStore(i, ok) ==
    /\ fgCalls[i].op = "createDeck" /\ fgCalls[i].pc = "insertDeck"
    /\ IF ok
       THEN LET row == [id |-> NextDeckId, name |-> fgCalls[i].arg.name,
                        subject |-> fgCalls[i].arg.subject]
            IN /\ flashcard_decks' = flashcard_decks \cup {row}
               /\ fgCalls' = [fgCalls EXCEPT ![i].pc = "resume", ![i].arg.id = row.id]
       ELSE /\ fgCalls' = [fgCalls EXCEPT ![i].pc = "resume", ![i].err = TRUE]
            /\ UNCHANGED flashcard_decks
    /\ UNCHANGED <<flashcards, decks, selectedDeck, fgToast, fgOps, fgLog>>

CreateDeckResume(i) ==
    /\ fgCalls[i].op = "createDeck" /\ fgCalls[i].pc = "resume"
    /\ IF fgCalls[i].err
       THEN /\ fgToast' = [title |-> "Error creating deck", variant |-> "destructive"]
            /\ UNCHANGED <<decks, selectedDeck, fgLog>>
       ELSE LET newDeck == [id |-> fgCalls[i].arg.id, name |-> fgCalls[i].arg.name,
                            subject |-> fgCalls[i].arg.subject,
                            totalCards |-> 0, flashcards |-> <<>>]
            IN /\ decks' = <<newDeck>> \o fgCalls[i].cDecks
               /\ selectedDeck' = newDeck
               /\ fgToast' = [title |-> "Deck created", variant |-> "default"]
               /\ fgLog' = Append(fgLog, [op |-> "createDeck", n |-> 0])
    /\ fgCalls' = [fgCalls EXCEPT ![i] = FgIdle]
    /\ UNCHANGED <<flashcard_decks, flashcards, fgOps>>

\* ---- handleUpdateDeck (FlashcardGenerator.tsx 127-204)
\* cards in updatedDeck but not in originalDeck (line 135)
NewCards(updatedDeck, originalDeck) ==
    SelectSeqBy(updatedDeck.flashcards, Ids(updatedDeck.flashcards) \ Ids(originalDeck.flashcards))
\* ids of cards in originalDeck but not in updatedDeck (line 140)
DeletedCardIds(updatedDeck, originalDeck) ==
    Ids(originalDeck.flashcards) \ Ids(updatedDeck.flashcards)
\* cards in both whose content changed (line 145)
UpdatedCards(updatedDeck, originalDeck) ==
    SelectSeqBy(updatedDeck.flashcards,
        {c.id : c \in {x \in Range(updatedDeck.flashcards) :
            \E o \in Range(originalDeck.flashcards) :
                o.id = x.id /\ (o.front # x.front \/ o.back # x.back)}})

OriginalDeck(call) ==
    LET hits == {d \in Range(call.cDecks) : d.id = call.arg.id}
    IN IF hits = {} THEN NoDeck ELSE CHOOSE d \in hits : TRUE

\* the store call handleUpdateDeck awaits next, after the one named by after:
\* the insert (151), the delete (166) and the updates (176) run in this order,
\* each only when it has rows to act on
StageRank(st) == CASE st = "start" -> 0 [] st = "updInsert" -> 1
                   [] st = "updDelete" -> 2 [] OTHER -> 3
UpdateStage(call, after) ==
    LET orig == OriginalDeck(call)
    IN IF StageRank(after) < 1 /\ NewCards(call.arg, orig) # <<>> THEN "updInsert"
       ELSE IF StageRank(after) < 2 /\ DeletedCardIds(call.arg, orig) # {} THEN "updDelete"
       ELSE IF StageRank(after) < 3 /\ UpdatedCards(call.arg, orig) # <<>> THEN "updUpdate"
       ELSE "updFinish"

\* the synchronous prefix of handleUpdateDeck(updatedDeck) run by a handler
\* whose closure is call: the invocation it leaves in flight
UpdateDeckBegin(call, updatedDeck) ==
    LET c == [call EXCEPT !.op = "updateDeck", !.arg = updatedDeck, !.resp = <<>>, !.batch = <<>>]
    IN IF OriginalDeck(c) = NoDeck THEN FgIdle      \* line 132: return
       ELSE [c EXCEPT !.pc = UpdateStage(c, "start")]

\* insert of the new cards (lines 151-163)
UpdateDeckInsert(i, ok) ==
    /\ fgCalls[i].op = "updateDeck" /\ fgCalls[i].pc = "updInsert"
    /\ IF ok
       THEN LET ins == InsertCards(flashcards, fgCalls[i].arg.id,
                                   NewCards(fgCalls[i].arg, OriginalDeck(fgCalls[i])))
            IN /\ Cardinality(ins[1]) <= MaxCardRows
               /\ flashcards' = ins[1]
               /\ fgCalls' = [fgCalls EXCEPT ![i].pc = UpdateStage(fgCalls[i], "updInsert")]
       ELSE /\ fgCalls' = [fgCalls EXCEPT ![i].pc = "updFinish", ![i].err = TRUE]
            /\ UNCHANGED flashcards
    /\ UNCHANGED <<flashcard_decks, decks, selectedDeck, fgToast, fgOps, fgLog>>

\* state update and notification (lines 188-203)
UpdateDeckFinish(i) ==
    /\ fgCalls[i].op = "updateDeck" /\ fgCalls[i].pc = "updFinish"
    /\ IF fgCalls[i].err
       THEN /\ fgToast' = [title |-> "Error updating deck", variant |-> "destructive"]
            /\ UNCHANGED <<decks, selectedDeck, fgLog>>
       ELSE /\ decks' = ReplaceById(fgCalls[i].cDecks, fgCalls[i].arg)
            /\ selectedDeck' = fgCalls[i].arg
            /\ fgToast' = [title |-> "Deck updated", variant |-> "default"]
            /\ fgLog' = Append(fgLog, [op |-> fgCalls[i].from, n |-> fgCalls[i].n])
    /\ fgCalls' = [fgCalls EXCEPT ![i] = FgIdle]
    /\ UNCHANGED <<flashcard_decks, flashcards, fgOps>>

\* delete of the removed cards (lines 166-173): .delete().in('id', ids)
\* removes the rows whose id is listed, and no row for an id the table lacks
UpdateDeckDelete(i, ok) ==
    /\ fgCalls[i].op = "updateDeck" /\ fgCalls[i].pc = "updDelete"
    /\ IF ok
       THEN /\ flashcards' = {r \in flashcards :
                    r.id \notin DeletedCardIds(fgCalls[i].arg, OriginalDeck(fgCalls[i]))}
            /\ fgCalls' = [fgCalls EXCEPT ![i].pc = UpdateStage(fgCalls[i], "updDelete")]
       ELSE /\ fgCalls' = [fgCalls EXCEPT ![i].pc = "updFinish", ![i].err = TRUE]
            /\ UNCHANGED flashcards
    /\ UNCHANGED <<flashcard_decks, decks, selectedDeck, fgToast, fgOps, fgLog>>

\* .update({front, back}).eq('id', card.id): rewrites the row of that id, if any
UpdateCardRow(rows, card) ==
    {IF r.id = card.id THEN [r EXCEPT !.front = card.front, !.back = card.back] ELSE r : r \in rows}

\* one turn of the loop over the modified cards (lines 176-185)
UpdateDeckUpdate(i, ok) ==
    /\ fgCalls[i].op = "updateDeck" /\ fgCalls[i].pc = "updUpdate"
    /\ LET cards == UpdatedCards(fgCalls[i].arg, OriginalDeck(fgCalls[i]))
           k == fgCalls[i].done + 1
       IN IF ok
          THEN /\ flashcards' = UpdateCardRow(flashcards, cards[k])
               /\ fgCalls' = [fgCalls EXCEPT ![i].done = k,
                                   ![i].pc = IF k = Len(cards) THEN "updFinish" ELSE "updUpdate"]
          ELSE /\ fgCalls' = [fgCalls EXCEPT ![i].pc = "updFinish", ![i].err = TRUE]
               /\ UNCHANGED flashcards
    /\ UNCHANGED <<flashcard_decks, decks, selectedDeck, fgToast, fgOps, fgLog>>

\* ---- handleAddGeneratedFlashcards (FlashcardGenerator.tsx 207-254)
AddGeneratedStart(batch) ==
    /\ HasFreeFgSlot /\ fgOps < MaxOps /\ fgOps' = fgOps + 1
    /\ selectedDeck # NoDeck /\ Len(batch) # 0        \* line 208
    /\ fgCalls' = [fgCalls EXCEPT ![FreeFgSlot] =
            [FgIdle EXCEPT !.op = "addGenerated", !.pc = "insertGen", !.cDecks = decks,
                           !.from = "addGenerated", !.n = Len(batch),
                           !.cSel = selectedDeck, !.batch = batch]]
    /\ UNCHANGED <<flashcard_decks, flashcards, decks, selectedDeck, fgToast, fgLog>>

AddGeneratedStore(i, ok) ==
    /\ fgCalls[i].op = "addGenerated" /\ fgCalls[i].pc = "insertGen"
    /\ IF ok
       THEN LET ins == InsertCards(flashcards, fgCalls[i].cSel.id, fgCalls[i].batch)
            IN /\ Cardinality(ins[1]) <= MaxCardRows
               /\ flashcards' = ins[1]
               /\ fgCalls' = [fgCalls EXCEPT ![i].pc = "resume", ![i].resp = ins[2]]
       ELSE /\ fgCalls' = [fgCalls EXCEPT ![i].pc = "resume", ![i].err = TRUE]
            /\ UNCHANGED flashcards
    /\ UNCHANGED <<flashcard_decks, decks, selectedDeck, fgToast, fgOps, fgLog>>

\* lines 225-231: the rows the store returned, in the view's format
NewFlashcards(call) ==
    [k \in DOMAIN call.resp |-> [id |-> call.resp[k].id, front |-> call.resp[k].front,
                                 back |-> call.resp[k].back, subject |-> call.cSel.subject]]

\* the batch appended without the count being raised
GeneratedUpdatedDeckStaleCount(call) ==
    [call.cSel EXCEPT !.flashcards = call.cSel.flashcards \o NewFlashcards(call)]

\* lines 234-238
GeneratedUpdatedDeck(call) ==
    [call.cSel EXCEPT !.totalCards = call.cSel.totalCards + Len(NewFlashcards(call)),
                      !.flashcards = call.cSel.flashcards \o NewFlashcards(call)]

AddGeneratedResume(i) ==
    /\ fgCalls[i].op = "addGenerated" /\ fgCalls[i].pc = "resume"
    /\ IF fgCalls[i].err
       THEN /\ fgToast' = [title |-> "Error adding flashcards", variant |-> "destructive"]
            /\ fgCalls' = [fgCalls EXCEPT ![i] = FgIdle]
       ELSE /\ fgCalls' = [fgCalls EXCEPT ![i] =
                    UpdateDeckBegin(fgCalls[i], GeneratedUpdatedDeck(fgCalls[i]))]
            /\ fgToast' = [title |-> "Flashcards added", variant |-> "default"]
    /\ UNCHANGED <<flashcard_decks, flashcards, decks, selectedDeck, fgOps, fgLog>>

\* ---- FlashcardDetail, rendered with deck = selectedDeck and
\* onUpdateDeck = handleUpdateDeck of the same render (FlashcardGenerator.tsx 291-296)
\* the text the user types for a new card and for an edited card
NewCardTexts == {[front |-> "q", back |-> "a"]}
EditCardTexts == {[front |-> "e", back |-> "a"]}
\* Date.now().toString(): a clock reading, never an id the store hands out
DateNow == 0 - (fgOps + 1)

\* the invocation of handleUpdateDeck a FlashcardDetail handler leaves in flight
DetailCall(from, updatedDeck) ==
    UpdateDeckBegin([FgIdle EXCEPT !.cDecks = decks, !.cSel = selectedDeck,
                                   !.from = from, !.n = 1], updatedDeck)

\* the new card appended without the count being raised
CreatedCardDeckStaleCount(deck, text) ==
    [deck EXCEPT !.flashcards = deck.flashcards \o
        <<[id |-> DateNow, front |-> text.front, back |-> text.back, subject |-> deck.subject]>>]

\* handleCreateFlashcard's updatedDeck (FlashcardDetail.tsx 35-46)
CreatedCardDeck(deck, text) ==
    [deck EXCEPT !.totalCards = deck.totalCards + 1,
                 !.flashcards = deck.flashcards \o
        <<[id |-> DateNow, front |-> text.front, back |-> text.back, subject |-> deck.subject]>>]

\* handleDeleteFlashcard's updatedDeck (FlashcardDetail.tsx 54-59)
DeletedCardDeck(deck, cardId) ==
    LET updatedFlashcards == SelectSeqBy(deck.flashcards, Ids(deck.flashcards) \ {cardId})
    IN [deck EXCEPT !.totalCards = Len(updatedFlashcards), !.flashcards = updatedFlashcards]

\* handleSaveEdit's updatedDeck (FlashcardDetail.tsx 74-83)
EditedCardDeck(deck, cardId, text) ==
    [deck EXCEPT !.flashcards =
        [k \in DOMAIN deck.flashcards |->
            IF deck.flashcards[k].id = cardId
            THEN [deck.flashcards[k] EXCEPT !.front = text.front, !.back = text.back]
            ELSE deck.flashcards[k]]]

\* a FlashcardDetail handler: the synchronous part up to handleUpdateDeck's
\* first await
DetailHandler(from, updatedDeck) ==
    /\ selectedDeck # NoDeck
    /\ HasFreeFgSlot /\ fgOps < MaxOps /\ fgOps' = fgOps + 1
    /\ fgCalls' = [fgCalls EXCEPT ![FreeFgSlot] = DetailCall(from, updatedDeck)]
    /\ UNCHANGED <<flashcard_decks, flashcards, decks, selectedDeck, fgToast, fgLog>>

\* handleCreateFlashcard (FlashcardDetail.tsx 32-51); text is never blank (line 33)
CreateFlashcard(text) == DetailHandler("createCard", CreatedCardDeck(selectedDeck, text))

\* handleDeleteFlashcard (FlashcardDetail.tsx 53-62), on a displayed card
DeleteFlashcard(cardId) ==
    /\ cardId \in Ids(selectedDeck.flashcards)
    /\ DetailHandler("deleteCard", DeletedCardDeck(selectedDeck, cardId))

\* handleSaveEdit (FlashcardDetail.tsx 71-88), on a displayed card
SaveEdit(cardId, text) ==
    /\ cardId \in Ids(selectedDeck.flashcards)
    /\ DetailHandler("editCard", EditedCardDeck(selectedDeck, cardId, text))

\* ---- fetchDecks (FlashcardGenerator.tsx 22-82), run by a fresh mount of
\* the view: the decks newest first, each with the rows of its cards
RECURSIVE RowsById(_)
RowsById(rows) ==
    IF rows = {} THEN <<>>
    ELSE LET r == CHOOSE x \in rows : \A y \in rows : x.id <= y.id
         IN <<r>> \o RowsById(rows \ {r})
Reverse(s) == [k \in DOMAIN s |-> s[Len(s) + 1 - k]]
DeckWithCards(deck) ==
    LET flashcardsData == RowsById({r \in flashcards : r.deck_id = deck.id})
    IN [id |-> deck.id, name |-> deck.name, subject |-> deck.subject,
        totalCards |-> Len(flashcardsData),
        flashcards |-> [k \in DOMAIN flashcardsData |->
            [id |-> flashcardsData[k].id, front |-> flashcardsData[k].front,
             back |-> flashcardsData[k].back, subject |-> deck.subject]]]
DecksWithCards ==
    LET decksData == Reverse(RowsById(flashcard_decks))
    IN [k \in DOMAIN decksData |-> DeckWithCards(decksData[k])]

\* the view is mounted afresh, once the invocations of the old mount have
\* resolved: its state is the initial state (lines 14-17) and the mount
\* effect starts fetchDecks
Remount ==
    /\ FgQuiet
    /\ fgOps < MaxOps /\ fgOps' = fgOps + 1
    /\ decks' = <<>> /\ selectedDeck' = NoDeck /\ fgLoading' = TRUE
    /\ fgCalls' = [fgCalls EXCEPT ![1] = [FgIdle EXCEPT !.op = "fetchDecks", !.pc = "read"]]
    /\ UNCHANGED <<flashcard_decks, flashcards, fgToast, fgLog>>

\* the reads of fetchDecks have been answered (lines 28-77); no deck is
\* selected yet (line 62)
FetchDecksReturn(i, ok) ==
    /\ fgCalls[i].op = "fetchDecks" /\ fgCalls[i].pc = "read"
    /\ IF ok
       THEN /\ decks' = DecksWithCards
            /\ selectedDeck' = IF DecksWithCards = <<>> THEN NoDeck ELSE DecksWithCards[1]
            /\ UNCHANGED fgToast
       ELSE /\ fgToast' = [title |-> "Error loading flashcards", variant |-> "destructive"]
            /\ UNCHANGED <<decks, selectedDeck>>
    /\ fgLoading' = FALSE
    /\ fgCalls' = [fgCalls EXCEPT ![i] = FgIdle]
    /\ fgLog' = Append(fgLog, [op |-> "fetchDecks", n |-> 0])
    /\ UNCHANGED <<flashcard_decks, flashcards, fgOps>>

\* a handler runs in the loaded view: while loading, the spinner is all the
\* view renders (lines 270-277)
FgLoaded == ~fgLoading /\ UNCHANGED fgLoading

\* ---- onSelectDeck={setSelectedDeck} (FlashcardGenerator.tsx 288)
SelectDeck(k) ==
    /\ k \in DOMAIN decks
    /\ selectedDeck # decks[k]
    /\ fgOps < MaxOps /\ fgOps' = fgOps + 1
    /\ selectedDeck' = decks[k]
    /\ UNCHANGED <<flashcard_decks, flashcards, decks, fgCalls, fgToast, fgLog>>

InitFlash ==
    /\ flashcard_decks = {}
    /\ flashcards = {}
    /\ decks = <<>>
    /\ selectedDeck = NoDeck
    /\ fgCalls = [i \in 1..MaxCalls |-> FgIdle]
    /\ fgToast = NoToast
    /\ fgOps = 0
    /\ fgLog = <<>>
    /\ fgLoading = FALSE

NextFlash ==
    \/ \E n \in DeckNames, s \in Subjects : CreateDeckStart(n, s) /\ FgLoaded /\ OnlyFlash
    \/ \E i \in 1..MaxCalls, ok \in BOOLEAN : CreateDeckStore(i, ok) /\ FgLoaded /\ OnlyFlash
    \/ \E i \in 1..MaxCalls : CreateDeckResume(i) /\ FgLoaded /\ OnlyFlash
    \/ \E b \in GenBatches : AddGeneratedStart(b) /\ FgLoaded /\ OnlyFlash
    \/ \E i \in 1..MaxCalls, ok \in BOOLEAN : AddGeneratedStore(i, ok) /\ FgLoaded /\ OnlyFlash
    \/ \E i \in 1..MaxCalls : AddGeneratedResume(i) /\ FgLoaded /\ OnlyFlash
    \/ \E i \in 1..MaxCalls, ok \in BOOLEAN : UpdateDeckInsert(i, ok) /\ FgLoaded /\ OnlyFlash
    \/ \E i \in 1..MaxCalls : UpdateDeckFinish(i) /\ FgLoaded /\ OnlyFlash
    \/ \E k \in 1..MaxDeckRows : SelectDeck(k) /\ FgLoaded /\ OnlyFlash
    \/ \E i \in 1..MaxCalls, ok \in BOOLEAN : UpdateDeckDelete(i, ok) /\ FgLoaded /\ OnlyFlash
    \/ \E i \in 1..MaxCalls, ok \in BOOLEAN : UpdateDeckUpdate(i, ok) /\ FgLoaded /\ OnlyFlash
    \/ \E t \in NewCardTexts : CreateFlashcard(t) /\ FgLoaded /\ OnlyFlash
    \/ \E c \in CardIds : DeleteFlashcard(c) /\ FgLoaded /\ OnlyFlash
    \/ \E c \in CardIds, t \in EditCardTexts : SaveEdit(c, t) /\ FgLoaded /\ OnlyFlash
    \/ Remount /\ OnlyFlash
    \/ \E i \in 1..MaxCalls, ok \in BOOLEAN : FetchDecksReturn(i, ok) /\ OnlyFlash

\* the view did exactly: handleCreateDeck, then handleAddGeneratedFlashcards
\* with n cards, each through to its success notification
CreatedThenAdded(n) ==
    /\ FgQuiet
    /\ fgLog = <<[op |-> "createDeck", n |-> 0], [op |-> "addGenerated", n |-> n]>>

\* C1: a deck created with zero cards to which one batch of N >= 1 generated
\* cards is then added has totalCards = N and N flashcards, as the selected
\* deck and as that deck's entry of the deck list.
C1_RoundTripCount ==
    \A n \in 1..MaxBatch :
        CreatedThenAdded(n) =>
            /\ selectedDeck.totalCards = n
            /\ Len(selectedDeck.flashcards) = n
            /\ \A k \in DOMAIN decks :
                  decks[k].id = selectedDeck.id =>
                      decks[k].totalCards = n /\ Len(decks[k].flashcards) = n

C1_Witness == CreatedThenAdded(MaxBatch) /\ selectedDeck.totalCards = MaxBatch

\* the card rows the store holds for a deck
StoredCards(deckId) == {r \in flashcards : r.deck_id = deckId}

\* C24: handleAddGeneratedFlashcards persists each generated card exactly
\* once: after N generated cards were added to a deck with K card rows (here
\* the deck just created, K = 0, by the only two user actions of the view)
\* the store holds K + N rows for the deck, and a fresh load of the deck
\* shows the card count the view shows.
C24_GeneratedPersistedOnce ==
    \A n \in 1..MaxBatch :
        (CreatedThenAdded(n) /\ fgOps = 2) =>
            /\ Cardinality(StoredCards(selectedDeck.id)) = n
            /\ \A row \in flashcard_decks :
                  row.id = selectedDeck.id =>
                      DeckWithCards(row).totalCards = selectedDeck.totalCards

\* a card of the view and a card row of the store, as (identity, content)
CardKey(c) == [id |-> c.id, front |-> c.front, back |-> c.back]
\* every user action issued so far ran through to its success notification
AllCompleted == FgQuiet /\ Len(fgLog) = fgOps

\* C27: every card of a deck's local state carries the identity of its store
\* row, so that deleting or editing a displayed card acts on exactly that
\* row: after each completed deck operation the card rows the store holds
\* for a deck are the flashcards of the deck in the view.
C27_CardsCarryStoreIdentity ==
    AllCompleted =>
        \A k \in DOMAIN decks :
            {CardKey(decks[k].flashcards[j]) : j \in DOMAIN decks[k].flashcards}
                = {CardKey(r) : r \in StoredCards(decks[k].id)}

CountIsLength(deck) == deck.totalCards = Len(deck.flashcards)

\* C23: in every reachable state of FlashcardGenerator, every deck of the
\* deck list and the selected deck have totalCards equal to the number of
\* their flashcards, after any sequence of card creation, deletion, edit and
\* generated-batch addition, store failures included.
C23_TotalCardsIsLength ==
    /\ \A k \in DOMAIN decks : CountIsLength(decks[k])
    /\ CountIsLength(selectedDeck)

\* a card was created by hand, a batch was added and a card was deleted, and
\* the deck shows what is left
C23_Witness ==
    /\ FgQuiet
    /\ \E a, b, c \in DOMAIN fgLog :
          /\ fgLog[a].op = "createCard" /\ fgLog[b].op = "addGenerated" /\ fgLog[c].op = "deleteCard"
    /\ selectedDeck.totalCards > 0

\* =========================================================================
\*  StudyPlanner
\* =========================================================================

NULL == "<null>"
Today == 10                       \* the calendar day of the run, as a day number
TzOffsets == {-5, 5}              \* UTC-5, UTC+5
FormSubjects == {"Physics"}
ProgressValues == {50, 100}       \* slider positions (max 100, step 5)
FormDays == {Today + 1}           \* days picked in the form (the picker offers none before today)
FormNotes == {"n"}

\* ---- dates.  A stored date is a calendar day 'yyyy-MM-dd' (a day number); a
\* Date is an instant, in hours since the epoch.
\* new Date('yyyy-MM-dd'): a date-only ISO string is parsed as UTC midnight
NewDate(day) == day * 24
\* format(date, 'yyyy-MM-dd') of date-fns: the calendar day in local time
FormatDate(instant) == (instant + tz) \div 24
\* the Date the calendar hands to the form: local midnight of the picked day
PickedDate(day) == day * 24 - tz

\* ---- string-encoded fields of the row
\* Number.prototype.toString / Boolean.prototype.toString
NumToString(n) == ToString(n)
BoolToString(b) == IF b THEN "true" ELSE "false"
\* Number(string)
StrToNumber(str) == CHOOSE n \in 0..100 : ToString(n) = str
\* typeof progress === 'number' ? progress : progress ? Number(progress) : 0
ParseProgress(v) == IF v = NULL \/ v = "" THEN 0 ELSE StrToNumber(v)
\* typeof completed === 'boolean' ? completed : completed === 'true' ? true : false
ParseCompleted(v) == v = "true"

NoSession == [id |-> 0, subject |-> "", topic |-> "", date |-> 0, startTime |-> "",
              duration |-> "", notes |-> "", progress |-> 0, completed |-> FALSE]
NoRow == [id |-> 0, subject |-> "", topic |-> "", date |-> 0, startTime |-> "",
          duration |-> "", notes |-> NULL, progress |-> NULL, completed |-> NULL]

\* database row -> component format (lines 100-114, 161-175, 411-425)
FormatSession(row) ==
    [id |-> row.id, subject |-> row.subject, topic |-> row.topic,
     date |-> NewDate(row.date),
     startTime |-> IF row.startTime = NULL THEN "" ELSE row.startTime,
     duration |-> row.duration,
     notes |-> IF row.notes = NULL THEN "" ELSE row.notes,
     progress |-> ParseProgress(row.progress),
     completed |-> ParseCompleted(row.completed)]

\* the row onSubmit inserts for the form values (lines 138-150)
NewSessionRow(values) ==
    [id |-> 0, subject |-> values.subject, topic |-> values.topic,
     date |-> FormatDate(values.date), startTime |-> values.startTime,
     duration |-> values.duration,
     notes |-> IF values.notes = "" THEN NULL ELSE values.notes,
     progress |-> "0", completed |-> "false"]

\* the row handleUndoDelete inserts for a deleted session (lines 390-404)
RestoredRow(session) ==
    [id |-> 0, subject |-> session.subject, topic |-> session.topic,
     date |-> FormatDate(session.date), startTime |-> session.startTime,
     duration |-> session.duration, notes |-> session.notes,
     progress |-> NumToString(session.progress),
     completed |-> BoolToString(session.completed)]

FormValues ==
    {[NoSession EXCEPT !.subject = sub, !.topic = "topic", !.date = PickedDate(d),
                       !.startTime = "09:00", !.duration = "1 hour", !.notes = nt]
        : sub \in FormSubjects, d \in FormDays, nt \in FormNotes}

RECURSIVE SortRows(_, _)
\* .order('date', {ascending}): the rows by date; rows of one date by id
SortRows(rows, ascending) ==
    IF rows = {} THEN <<>>
    ELSE LET first == CHOOSE r \in rows : \A q \in rows :
                        \/ IF ascending THEN r.date < q.date ELSE r.date > q.date
                        \/ r.date = q.date /\ r.id <= q.id
         IN <<first>> \o SortRows(rows \ {first}, ascending)

\* cSessions: the studySessions of the render whose handler was invoked;
\* seq: the position of the invocation among the user's actions
PlIdle == [op |-> "idle", pc |-> "idle", cSessions |-> <<>>, sid |-> 0, progress |-> 0,
           arg |-> NoSession, resp |-> NoRow, data |-> <<>>, err |-> FALSE, seq |-> 0]
NoPlToast == [title |-> "", variant |-> "", undo |-> NoSession, cSessions |-> <<>>]
Notify(title, variant) == [NoPlToast EXCEPT !.title = title, !.variant = variant]

\* JSON.stringify of the payload: a Date becomes its ISO string
IsoString(instant) == [type |-> "string", t |-> instant]
JsDate(instant) == [type |-> "Date", t |-> instant]
SessionPayload(session) == [session EXCEPT !.date = IsoString(session.date)]
NoEvent == [event |-> "", sessionId |-> 0, subject |-> "", progress |-> 0,
            completed |-> FALSE, session |-> SessionPayload(NoSession)]
\* channel.send({type: 'broadcast', event, payload})
Send(ev) == published' = Append(published, ev)

\* array.find(s => s.id === id), NoSession for undefined
FindSession(list, id) ==
    LET hits == {k \in DOMAIN list : list[k].id = id}
    IN IF hits = {} THEN NoSession ELSE list[CHOOSE k \in hits : \A j \in hits : k <= j]

HasFreePlSlot == \E i \in 1..MaxPlannerCalls : plCalls[i].pc = "idle"
FreePlSlot == CHOOSE i \in 1..MaxPlannerCalls : plCalls[i].pc = "idle" /\ \A j \in 1..(i-1) : plCalls[j].pc # "idle"
PlStart(call) ==
    /\ HasFreePlSlot /\ plOps < MaxPlannerOps
    /\ plOps' = plOps + 1
    /\ plCalls' = [plCalls EXCEPT ![FreePlSlot] =
            [call EXCEPT !.cSessions = studySessions, !.seq = plOps + 1]]
    /\ UNCHANGED <<tz, study_sessions, sessionSeq, studySessions, plLoading, plToast, published>>
PlAt(i, op, pc) == plCalls[i].op = op /\ plCalls[i].pc = pc
PlReturn(i) == plCalls' = [plCalls EXCEPT ![i] = PlIdle]
\* a variant of PlFailed that empties the list
PlFailedClearsList(i, title) ==
    /\ plToast' = Notify(title, "destructive")
    /\ studySessions' = <<>>
    /\ UNCHANGED published
\* catch (error) { toast({title, description: error.message, variant: 'destructive'}) }
PlFailed(i, title) ==
    /\ plToast' = Notify(title, "destructive")
    /\ UNCHANGED <<studySessions, published>>

\* ---- fetchStudySessions (lines 86-130), started by the mount effect
FetchSessionsStore(i, ok) ==
    /\ PlAt(i, "fetch", "read")
    /\ plCalls' = [plCalls EXCEPT ![i].pc = "resume", ![i].err = ~ok,
                                  ![i].data = IF ok THEN SortRows(study_sessions, FALSE) ELSE <<>>]
    /\ UNCHANGED <<tz, study_sessions, sessionSeq, studySessions, plLoading, plToast, plOps, published>>

FetchSessionsResume(i) ==
    /\ PlAt(i, "fetch", "resume")
    /\ IF plCalls[i].err
       THEN /\ plToast' = Notify("Error fetching study sessions", "destructive")
            /\ UNCHANGED studySessions
       ELSE /\ studySessions' = [k \in DOMAIN plCalls[i].data |-> FormatSession(plCalls[i].data[k])]
            /\ UNCHANGED plToast
    /\ plLoading' = FALSE
    /\ PlReturn(i)
    /\ UNCHANGED <<tz, study_sessions, sessionSeq, plOps, published>>

\* ---- onSubmit (lines 133-201)
OnSubmitStart(values) ==
    /\ sessionSeq + Cardinality({i \in 1..MaxPlannerCalls : plCalls[i].pc = "insert"}) < MaxSessionRows
    /\ PlStart([PlIdle EXCEPT !.op = "onSubmit", !.pc = "insert", !.arg = values])

\* insert(...).select('*').single(): the row gets its id from the store
InsertSession(i, row, ok) ==
    /\ IF ok
       THEN LET stored == [row EXCEPT !.id = sessionSeq + 1]
            IN /\ study_sessions' = study_sessions \cup {stored}
               /\ sessionSeq' = sessionSeq + 1
               /\ plCalls' = [plCalls EXCEPT ![i].pc = "resume", ![i].resp = stored]
       ELSE /\ plCalls' = [plCalls EXCEPT ![i].pc = "resume", ![i].err = TRUE]
            /\ UNCHANGED <<study_sessions, sessionSeq>>
    /\ UNCHANGED <<tz, studySessions, plLoading, plToast, plOps, published>>

OnSubmitStore(i, ok) ==
    /\ PlAt(i, "onSubmit", "insert")
    /\ InsertSession(i, NewSessionRow(plCalls[i].arg), ok)

OnSubmitResume(i) ==
    /\ PlAt(i, "onSubmit", "resume")
    /\ IF plCalls[i].err
       THEN PlFailed(i, "Error creating study session")
       ELSE LET formattedSession == FormatSession(plCalls[i].resp)
            IN /\ studySessions' = <<formattedSession>> \o plCalls[i].cSessions
               /\ plToast' = Notify("Study session created", "default")
               /\ Send([NoEvent EXCEPT !.event = "session-created",
                                       !.session = SessionPayload(formattedSession)])
    /\ PlReturn(i)
    /\ UNCHANGED <<tz, study_sessions, sessionSeq, plLoading, plOps>>

\* update(fields).eq('id', id): the row with that id, if there is one, changes
UpdateRow(rows, id, progress, completed) ==
    {IF r.id = id THEN [r EXCEPT !.progress = progress, !.completed = completed] ELSE r
        : r \in rows}

\* a variant of WithProgress that leaves the completed flag of the session as it was
WithProgressOnly(list, id, progress, completed) ==
    [k \in DOMAIN list |-> IF list[k].id = id THEN [list[k] EXCEPT !.progress = progress]
                           ELSE list[k]]
\* studySessions.map(session.id === sessionId ? {...session, progress, completed} : session)
WithProgress(list, id, progress, completed) ==
    [k \in DOMAIN list |-> IF list[k].id = id
                           THEN [list[k] EXCEPT !.progress = progress, !.completed = completed]
                           ELSE list[k]]

\* the session cards are rendered from studySessions once loading is over
Shown(id) == ~plLoading /\ id \in Ids(studySessions)

\* ---- updateSessionProgress (lines 218-270), from the slider of a shown session
UpdateProgressStart(id, progress) ==
    /\ Shown(id)
    /\ PlStart([PlIdle EXCEPT !.op = "updateSessionProgress", !.pc = "update",
                              !.sid = id, !.progress = progress])

UpdateProgressStore(i, ok) ==
    /\ PlAt(i, "updateSessionProgress", "update")
    /\ LET completed == plCalls[i].progress >= 100
       IN study_sessions' = IF ok THEN UpdateRow(study_sessions, plCalls[i].sid,
                                                 NumToString(plCalls[i].progress),
                                                 BoolToString(completed))
                            ELSE study_sessions
    /\ plCalls' = [plCalls EXCEPT ![i].pc = "resume", ![i].err = ~ok]
    /\ UNCHANGED <<tz, sessionSeq, studySessions, plLoading, plToast, plOps, published>>

UpdateProgressResume(i) ==
    /\ PlAt(i, "updateSessionProgress", "resume")
    /\ IF plCalls[i].err
       THEN PlFailed(i, "Error updating progress")
       ELSE LET completed == plCalls[i].progress >= 100
                updatedSessions == WithProgress(plCalls[i].cSessions, plCalls[i].sid,
                                                plCalls[i].progress, completed)
            IN /\ studySessions' = updatedSessions
               /\ plToast' = IF completed THEN Notify("Study session completed", "default")
                             ELSE plToast
               /\ Send([NoEvent EXCEPT !.event = "session-updated",
                            !.sessionId = plCalls[i].sid, !.progress = plCalls[i].progress,
                            !.completed = completed,
                            !.subject = FindSession(updatedSessions, plCalls[i].sid).subject])
    /\ PlReturn(i)
    /\ UNCHANGED <<tz, study_sessions, sessionSeq, plLoading, plOps>>

\* ---- markSessionComplete (lines 273-319); the button shows while progress < 100
MarkCompleteStart(id) ==
    /\ Shown(id) /\ FindSession(studySessions, id).progress < 100
    /\ PlStart([PlIdle EXCEPT !.op = "markSessionComplete", !.pc = "update", !.sid = id])

\* a variant of CompletedFields that leaves the completed flag unset
CompletedFieldsProgressOnly == [progress |-> "100", completed |-> "false"]
\* .update({progress: "100", completed: "true"})
CompletedFields == [progress |-> "100", completed |-> "true"]

MarkCompleteStore(i, ok) ==
    /\ PlAt(i, "markSessionComplete", "update")
    /\ study_sessions' = IF ok THEN UpdateRow(study_sessions, plCalls[i].sid,
                                              CompletedFields.progress,
                                              CompletedFields.completed)
                         ELSE study_sessions
    /\ plCalls' = [plCalls EXCEPT ![i].pc = "resume", ![i].err = ~ok]
    /\ UNCHANGED <<tz, sessionSeq, studySessions, plLoading, plToast, plOps, published>>

MarkCompleteResume(i) ==
    /\ PlAt(i, "markSessionComplete", "resume")
    /\ IF plCalls[i].err
       THEN PlFailed(i, "Error updating session")
       ELSE LET updatedSessions == WithProgress(plCalls[i].cSessions, plCalls[i].sid, 100, TRUE)
            IN /\ studySessions' = updatedSessions
               /\ plToast' = Notify("Study session completed", "default")
               /\ Send([NoEvent EXCEPT !.event = "session-completed",
                            !.sessionId = plCalls[i].sid,
                            !.subject = FindSession(updatedSessions, plCalls[i].sid).subject])
    /\ PlReturn(i)
    /\ UNCHANGED <<tz, study_sessions, sessionSeq, plLoading, plOps>>

\* ---- deleteSession (lines 334-384)
DeleteSessionStart(id) ==
    /\ Shown(id)
    /\ PlStart([PlIdle EXCEPT !.op = "deleteSession", !.pc = "delete", !.sid = id])

DeleteSessionStore(i, ok) ==
    /\ PlAt(i, "deleteSession", "delete")
    /\ study_sessions' = IF ok THEN {r \in study_sessions : r.id # plCalls[i].sid}
                         ELSE study_sessions
    /\ plCalls' = [plCalls EXCEPT ![i].pc = "resume", ![i].err = ~ok]
    /\ UNCHANGED <<tz, sessionSeq, studySessions, plLoading, plToast, plOps, published>>

DeleteSessionResume(i) ==
    /\ PlAt(i, "deleteSession", "resume")
    /\ IF plCalls[i].err
       THEN PlFailed(i, "Error deleting study session")
       ELSE LET sessionToDelete == FindSession(plCalls[i].cSessions, plCalls[i].sid)
            IN /\ studySessions' = SelectSeqBy(plCalls[i].cSessions,
                                               Ids(plCalls[i].cSessions) \ {plCalls[i].sid})
               \* the Undo button calls the handleUndoDelete of this render
               /\ plToast' = [title |-> "Study session deleted", variant |-> "default",
                              undo |-> sessionToDelete,
                              cSessions |-> IF sessionToDelete = NoSession THEN <<>>
                                            ELSE plCalls[i].cSessions]
               /\ IF sessionToDelete # NoSession
                  THEN Send([NoEvent EXCEPT !.event = "session-deleted",
                                !.sessionId = plCalls[i].sid,
                                !.subject = sessionToDelete.subject])
                  ELSE UNCHANGED published
    /\ PlReturn(i)
    /\ UNCHANGED <<tz, study_sessions, sessionSeq, plLoading, plOps>>

\* ---- handleUndoDelete (lines 387-449), from the Undo button of the toast
UndoDeleteStart ==
    /\ plToast.undo # NoSession
    /\ sessionSeq + Cardinality({i \in 1..MaxPlannerCalls : plCalls[i].pc = "insert"}) < MaxSessionRows
    /\ HasFreePlSlot /\ plOps < MaxPlannerOps
    /\ plOps' = plOps + 1
    /\ plCalls' = [plCalls EXCEPT ![FreePlSlot] =
            [PlIdle EXCEPT !.op = "handleUndoDelete", !.pc = "insert",
                           !.arg = plToast.undo, !.cSessions = plToast.cSessions,
                           !.seq = plOps + 1]]
    /\ UNCHANGED <<tz, study_sessions, sessionSeq, studySessions, plLoading, plToast, published>>

UndoDeleteStore(i, ok) ==
    /\ PlAt(i, "handleUndoDelete", "insert")
    /\ InsertSession(i, RestoredRow(plCalls[i].arg), ok)

UndoDeleteResume(i) ==
    /\ PlAt(i, "handleUndoDelete", "resume")
    /\ IF plCalls[i].err
       THEN PlFailed(i, "Error restoring study session")
       ELSE LET restoredSession == FormatSession(plCalls[i].resp)
            IN /\ studySessions' = Append(plCalls[i].cSessions, restoredSession)
               /\ plToast' = Notify("Study session restored", "default")
               /\ Send([NoEvent EXCEPT !.event = "session-restored",
                                       !.session = SessionPayload(restoredSession)])
    /\ PlReturn(i)
    /\ UNCHANGED <<tz, study_sessions, sessionSeq, plLoading, plOps>>

\* ---- the rows the store holds when the page is opened
SeedRow(id, subject, day, note, progress) ==
    [id |-> id, subject |-> subject, topic |-> "topic", date |-> day, startTime |-> "09:00",
     duration |-> "1 hour", notes |-> note, progress |-> NumToString(progress),
     completed |-> BoolToString(progress >= 100)]
SeedStores == {{SeedRow(1, "Math", Today + 1, NULL, 50)}}

InitPlanner ==
    /\ tz \in TzOffsets
    /\ study_sessions \in SeedStores
    /\ sessionSeq = Cardinality(study_sessions)
    /\ studySessions = <<>>
    /\ plLoading = TRUE
    /\ plCalls = [i \in 1..MaxPlannerCalls |-> IF i = 1 THEN [PlIdle EXCEPT !.op = "fetch", !.pc = "read"]
                                        ELSE PlIdle]
    /\ plToast = NoPlToast
    /\ plOps = 0
    /\ published = <<>>

\* the page some time after the user deleted the only session: the store is
\* empty and the toast with the Undo button of that deleteSession is showing
InitAfterDelete ==
    /\ tz \in TzOffsets
    /\ \E rows \in SeedStores : \E row \in rows :
          /\ sessionSeq = Cardinality(rows)
          /\ plToast = [title |-> "Study session deleted", variant |-> "default",
                        undo |-> FormatSession(row), cSessions |-> <<FormatSession(row)>>]
    /\ study_sessions = {}
    /\ studySessions = <<>>
    /\ plLoading = FALSE
    /\ plCalls = [i \in 1..MaxPlannerCalls |-> PlIdle]
    /\ plOps = 0
    /\ published = <<>>

NextPlanner ==
    \/ \E i \in 1..MaxPlannerCalls, ok \in BOOLEAN : FetchSessionsStore(i, ok) /\ OnlyPlanner
    \/ \E i \in 1..MaxPlannerCalls : FetchSessionsResume(i) /\ OnlyPlanner
    \/ \E v \in FormValues : OnSubmitStart(v) /\ OnlyPlanner
    \/ \E i \in 1..MaxPlannerCalls, ok \in BOOLEAN : OnSubmitStore(i, ok) /\ OnlyPlanner
    \/ \E i \in 1..MaxPlannerCalls : OnSubmitResume(i) /\ OnlyPlanner
    \/ \E id \in 1..MaxSessionRows, p \in ProgressValues : UpdateProgressStart(id, p) /\ OnlyPlanner
    \/ \E i \in 1..MaxPlannerCalls, ok \in BOOLEAN : UpdateProgressStore(i, ok) /\ OnlyPlanner
    \/ \E i \in 1..MaxPlannerCalls : UpdateProgressResume(i) /\ OnlyPlanner
    \/ \E id \in 1..MaxSessionRows : MarkCompleteStart(id) /\ OnlyPlanner
    \/ \E i \in 1..MaxPlannerCalls, ok \in BOOLEAN : MarkCompleteStore(i, ok) /\ OnlyPlanner
    \/ \E i \in 1..MaxPlannerCalls : MarkCompleteResume(i) /\ OnlyPlanner
    \/ \E id \in 1..MaxSessionRows : DeleteSessionStart(id) /\ OnlyPlanner
    \/ \E i \in 1..MaxPlannerCalls, ok \in BOOLEAN : DeleteSessionStore(i, ok) /\ OnlyPlanner
    \/ \E i \in 1..MaxPlannerCalls : DeleteSessionResume(i) /\ OnlyPlanner
    \/ UndoDeleteStart /\ OnlyPlanner
    \/ \E i \in 1..MaxPlannerCalls, ok \in BOOLEAN : UndoDeleteStore(i, ok) /\ OnlyPlanner
    \/ \E i \in 1..MaxPlannerCalls : UndoDeleteResume(i) /\ OnlyPlanner

\* =========================================================================
\*  Dashboard: the per-subject progress aggregate
\* =========================================================================
NotComputed == -1
SliderStep == 5
SliderValues == {SliderStep * k : k \in 0..(100 \div SliderStep)}
AggRowSet == {[progress |-> NumToString(p), completed |-> BoolToString(c)]
                : p \in SliderValues, c \in BOOLEAN}

\* fetchDashboardData: the rows are formatted (lines 81-92), then folded
\* per subject (lines 137-157)
ParsedOnLoad(rows) ==
    [k \in DOMAIN rows |-> [progress |-> ParseProgress(rows[k].progress),
                            completed |-> ParseCompleted(rows[k].completed)]]
ProgressOnLoad(rows) == SubjectProgressOf(ParsedOnLoad(rows))

\* updateSubjectProgress: each row is parsed inside the fold (lines 353-373)
ParsedOnUpdate(rows) ==
    [k \in DOMAIN rows |->
        [completed |-> rows[k].completed = "true",
         progress |-> IF rows[k].progress = NULL \/ rows[k].progress = "" THEN 0
                      ELSE StrToNumber(rows[k].progress)]]
ProgressOnUpdate(rows) == SubjectProgressOf(ParsedOnUpdate(rows))

ComputeOnLoad ==
    /\ aggLoad = NotComputed
    /\ aggLoad' = ProgressOnLoad(aggRows)
    /\ UNCHANGED <<aggRows, aggUpdate>>

ComputeOnUpdate ==
    /\ aggUpdate = NotComputed
    /\ aggUpdate' = ProgressOnUpdate(aggRows)
    /\ UNCHANGED <<aggRows, aggLoad>>

InitAggregate ==
    /\ aggRows \in UNION {[1..n -> AggRowSet] : n \in 1..MaxAggSessions}
    /\ aggLoad = NotComputed
    /\ aggUpdate = NotComputed

NextAggregate ==
    \/ ComputeOnLoad /\ OnlyAggregate
    \/ ComputeOnUpdate /\ OnlyAggregate

\* 100 * sum(contribution) as an integer: a completed session contributes 1,
\* an incomplete one progress / 100
RECURSIVE ContributionSum(_)
ContributionSum(rows) ==
    IF rows = <<>> THEN 0
    ELSE (IF Head(rows).completed = "true" THEN 100 ELSE StrToNumber(Head(rows).progress))
         + ContributionSum(Tail(rows))
\* round(100 * sum(contribution) / count), the nearest integer, a half rounding up
RoundedAggregate(rows) == (2 * ContributionSum(rows) + Len(rows)) \div (2 * Len(rows))
\* whether 100 * sum(contribution) / count lies halfway between two integers
IsTie(rows) == (2 * ContributionSum(rows)) % (2 * Len(rows)) = Len(rows)

\* C7: for every non-empty set of sessions of one subject, the initial load and
\* updateSubjectProgress both produce round(100 * sum(contribution) / count).
C7_AggregateIsRounded ==
    /\ aggLoad # NotComputed => aggLoad = RoundedAggregate(aggRows)
    /\ aggUpdate # NotComputed => aggUpdate = RoundedAggregate(aggRows)

\* =========================================================================
\*  Dashboard: the component
\* =========================================================================

MaxUpcoming == 4        \* .slice(0, 4) of the upcoming sessions
MaxSubjects == 3        \* .slice(0, 3) of the subjects
MaxRecentDoubts == 2    \* .slice(0, 2) of the doubts
DoubtsLimit == 5        \* .limit(5) of the doubts read

\* array.slice(0, n)
Take(list, n) == SubSeq(list, 1, IF Len(list) < n THEN Len(list) ELSE n)

\* Array.prototype.sort with a comparator that orders by an integer key: stable
SortByKey(list, keys) ==
    LET n == Len(list)
        rank(k) == Cardinality({j \in 1..n : keys[j] < keys[k] \/ (keys[j] = keys[k] /\ j < k)})
    IN [p \in 1..n |-> list[CHOOSE k \in 1..n : rank(k) = p - 1]]

\* row -> Dashboard format (lines 81-92)
FormatDashSession(row) ==
    [id |-> row.id, subject |-> row.subject, topic |-> row.topic,
     date |-> JsDate(NewDate(row.date)),
     startTime |-> IF row.startTime = NULL THEN "" ELSE row.startTime,
     duration |-> row.duration,
     progress |-> ParseProgress(row.progress),
     completed |-> ParseCompleted(row.completed)]

\* new Date() with setHours(0, 0, 0, 0): local midnight of the current day
TodayMidnight == Today * 24 - tz
\* relational comparison of a value with a Date: a Date compares by its time
\* value, an ISO string converts to NaN, and every comparison with NaN is false
DateGE(d, instant) == d.type = "Date" /\ d.t >= instant
\* startTime.split(':').map(Number) as minutes of the day
StartMinutes(startTime) == CASE startTime = "09:00" -> 540 [] OTHER -> 0
\* the comparator of lines 106-119: by date, then hours, then minutes
UpcomingKey(session) == session.date.t * 1440 + StartMinutes(session.startTime)
SortUpcoming(list) == SortByKey(list, [k \in DOMAIN list |-> UpcomingKey(list[k])])

\* the filter of lines 99-105: not completed, and not before today or on the
\* same local calendar day
IsUpcoming(session) ==
    /\ ~session.completed
    /\ \/ DateGE(session.date, TodayMidnight)
       \/ FormatDate(session.date.t) = Today

\* lines 98-120
UpcomingOf(formattedSessions) ==
    Take(SortUpcoming(SelectSeq(formattedSessions, IsUpcoming)), MaxUpcoming)

RECURSIVE SubjectsOf(_)
\* the keys of subjectMap, in insertion order
SubjectsOf(rows) ==
    IF rows = <<>> THEN <<>>
    ELSE LET rest == SubjectsOf(SubSeq(rows, 1, Len(rows) - 1))
             subject == rows[Len(rows)].subject
         IN IF subject \in Range(rest) THEN rest ELSE Append(rest, subject)

RowsOfSubject(rows, subject) == SelectSeq(rows, LAMBDA r : r.subject = subject)

SortByProgress(list) == SortByKey(list, [k \in DOMAIN list |-> 0 - list[k].progress])

\* lines 135-162
ProgressData(rows) ==
    LET subjects == SubjectsOf(rows)
        entry(subject) ==
            LET own == RowsOfSubject(rows, subject)
            IN [subject |-> subject, progress |-> ProgressOnLoad(own),
                totalSessions |-> Len(own),
                completedSessions |-> MathRound(CompletedSessions(ParsedOnLoad(own)))]
    IN Take(SortByProgress([k \in DOMAIN subjects |-> entry(subjects[k])]), MaxSubjects)

\* lines 376-399: the functional update of studyProgress
WithSubjectProgress(prev, subject, rows) ==
    LET entry == [subject |-> subject, progress |-> ProgressOnUpdate(rows),
                  totalSessions |-> Len(rows),
                  completedSessions |-> MathRound(CompletedSessions(ParsedOnUpdate(rows)))]
    IN IF \E k \in DOMAIN prev : prev[k].subject = subject
       THEN [k \in DOMAIN prev |-> IF prev[k].subject = subject THEN entry ELSE prev[k]]
       ELSE Take(SortByProgress(Append(prev, entry)), MaxSubjects)

\* lines 125-130
FormatDoubts(rows) ==
    Take([k \in DOMAIN rows |-> [id |-> rows[k].id, question |-> rows[k].question,
                                 answered |-> rows[k].solved,
                                 datetime |-> rows[k].timestamp]], MaxRecentDoubts)

RECURSIVE SortDoubts(_)
\* .order('timestamp', {ascending: false}); rows of one timestamp by id
SortDoubts(rows) ==
    IF rows = {} THEN <<>>
    ELSE LET first == CHOOSE r \in rows : \A q \in rows :
                        r.timestamp > q.timestamp \/ (r.timestamp = q.timestamp /\ r.id <= q.id)
         IN <<first>> \o SortDoubts(rows \ {first})

DbIdle == [op |-> "idle", pc |-> "idle", subject |-> "", data |-> <<>>, ddata |-> <<>>,
           err |-> FALSE]
DbAt(i, op, pc) == dbCalls[i].op = op /\ dbCalls[i].pc = pc
HasFreeDbSlot == \E i \in 1..MaxDashCalls : dbCalls[i].pc = "idle"
FreeDbSlot == CHOOSE i \in 1..MaxDashCalls :
                dbCalls[i].pc = "idle" /\ \A j \in 1..(i-1) : dbCalls[j].pc # "idle"
\* the handlers the channel calls are those of the first render: their
\* upcomingStudySessions is the initial state
FirstRenderUpcoming == <<>>

\* a state setter called after the unmount leaves the state as it is
SetState(cur, new) == IF dbMounted THEN new ELSE cur

\* ---- fetchDashboardData (lines 57-175), started by the mount effect
FetchDashReadSessions(i, ok) ==
    /\ DbAt(i, "fetchDashboardData", "readSessions")
    /\ dbCalls' = [dbCalls EXCEPT ![i].pc = IF ok THEN "readDoubts" ELSE "resume",
                                  ![i].err = ~ok,
                                  ![i].data = IF ok THEN SortRows(study_sessions, TRUE) ELSE <<>>]
    /\ UNCHANGED <<dbLoading, upcomingStudySessions, recentDoubts, studyProgress,
                   updatingProgress, dbToast, dbTimers, dbMounted, delivered>>

FetchDashReadDoubts(i, ok) ==
    /\ DbAt(i, "fetchDashboardData", "readDoubts")
    /\ dbCalls' = [dbCalls EXCEPT ![i].pc = "resume", ![i].err = ~ok,
                      ![i].ddata = IF ok THEN Take(SortDoubts(doubtsTable), DoubtsLimit)
                                   ELSE <<>>]
    /\ UNCHANGED <<dbLoading, upcomingStudySessions, recentDoubts, studyProgress,
                   updatingProgress, dbToast, dbTimers, dbMounted, delivered>>

FetchDashResume(i) ==
    /\ DbAt(i, "fetchDashboardData", "resume")
    /\ IF dbCalls[i].err
       THEN /\ dbToast' = "Error loading dashboard"
            /\ UNCHANGED <<upcomingStudySessions, recentDoubts, studyProgress>>
       ELSE LET data == dbCalls[i].data
                formattedSessions == [k \in DOMAIN data |-> FormatDashSession(data[k])]
            IN /\ upcomingStudySessions' =
                      SetState(upcomingStudySessions, UpcomingOf(formattedSessions))
               /\ recentDoubts' = SetState(recentDoubts, FormatDoubts(dbCalls[i].ddata))
               /\ studyProgress' = SetState(studyProgress, ProgressData(data))
               /\ UNCHANGED dbToast
    /\ dbLoading' = SetState(dbLoading, FALSE)
    /\ dbCalls' = [dbCalls EXCEPT ![i] = DbIdle]
    /\ UNCHANGED <<updatingProgress, dbTimers, dbMounted, delivered>>

\* ---- updateSubjectProgress (lines 339-403)
StartUpdateSubjectProgress(subject) ==
    dbCalls' = [dbCalls EXCEPT ![FreeDbSlot] =
                   [DbIdle EXCEPT !.op = "updateSubjectProgress", !.pc = "read",
                                  !.subject = subject]]

\* .eq('subject', subject), no order given: the rows as SortRows lists them
UpdateSubjectProgressRead(i, ok) ==
    /\ DbAt(i, "updateSubjectProgress", "read")
    /\ dbCalls' = [dbCalls EXCEPT ![i].pc = "resume", ![i].err = ~ok,
                      ![i].data = IF ok THEN SortRows({r \in study_sessions :
                                                         r.subject = dbCalls[i].subject}, TRUE)
                                  ELSE <<>>]
    /\ UNCHANGED <<dbLoading, upcomingStudySessions, recentDoubts, studyProgress,
                   updatingProgress, dbToast, dbTimers, dbMounted, delivered>>

\* a failed read is only logged
UpdateSubjectProgressResume(i) ==
    /\ DbAt(i, "updateSubjectProgress", "resume")
    /\ studyProgress' = IF dbCalls[i].err THEN studyProgress
                        ELSE SetState(studyProgress,
                                      WithSubjectProgress(studyProgress, dbCalls[i].subject,
                                                          dbCalls[i].data))
    /\ dbCalls' = [dbCalls EXCEPT ![i] = DbIdle]
    /\ UNCHANGED <<dbLoading, upcomingStudySessions, recentDoubts, updatingProgress,
                   dbToast, dbTimers, dbMounted, delivered>>

\* ---- the channel hands the next event to its handler
NextEvent == published[delivered + 1]
Receive(events) ==
    /\ dbMounted
    /\ delivered < Len(published)
    /\ NextEvent.event \in events
    /\ HasFreeDbSlot
    /\ delivered' = delivered + 1

\* a variant of RemoveSession that leaves the list as it is
RemoveSessionKeepsAll(prev, sessionId) == prev
\* prev.filter(session => session.id !== payload.sessionId)
RemoveSession(prev, sessionId) == SelectSeq(prev, LAMBDA s : s.id # sessionId)

\* handleSessionCreated (lines 212-247), for session-created and session-restored
HandleSessionCreated ==
    /\ Receive({"session-created", "session-restored"})
    /\ LET session == NextEvent.session
       IN /\ upcomingStudySessions' =
                IF ~session.completed /\ DateGE(session.date, TodayMidnight)
                THEN Take(SortUpcoming(Append(FirstRenderUpcoming, session)), MaxUpcoming)
                ELSE upcomingStudySessions
          /\ StartUpdateSubjectProgress(session.subject)
    /\ dbToast' = "Dashboard updated"
    /\ UNCHANGED <<dbLoading, recentDoubts, studyProgress, updatingProgress, dbTimers, dbMounted>>

\* handleSessionUpdated (lines 250-270)
HandleSessionUpdated ==
    /\ Receive({"session-updated"})
    /\ LET payload == NextEvent
           updatedUpcoming == [k \in DOMAIN FirstRenderUpcoming |->
                IF FirstRenderUpcoming[k].id = payload.sessionId
                THEN [FirstRenderUpcoming[k] EXCEPT !.progress = payload.progress,
                                                    !.completed = payload.completed]
                ELSE FirstRenderUpcoming[k]]
       IN /\ upcomingStudySessions' = SelectSeq(updatedUpcoming, LAMBDA s : ~s.completed)
          /\ updatingProgress' = payload.subject
          /\ StartUpdateSubjectProgress(payload.subject)
    /\ dbTimers' = dbTimers + 1
    /\ UNCHANGED <<dbLoading, recentDoubts, studyProgress, dbToast, dbMounted>>

\* handleSessionCompleted (lines 273-293)
HandleSessionCompleted ==
    /\ Receive({"session-completed"})
    /\ upcomingStudySessions' = RemoveSession(upcomingStudySessions, NextEvent.sessionId)
    /\ updatingProgress' = NextEvent.subject
    /\ StartUpdateSubjectProgress(NextEvent.subject)
    /\ dbTimers' = dbTimers + 1
    /\ dbToast' = "Session completed"
    /\ UNCHANGED <<dbLoading, recentDoubts, studyProgress, dbMounted>>

\* handleSessionDeleted (lines 296-304)
HandleSessionDeleted ==
    /\ Receive({"session-deleted"})
    /\ upcomingStudySessions' = RemoveSession(upcomingStudySessions, NextEvent.sessionId)
    /\ StartUpdateSubjectProgress(NextEvent.subject)
    /\ UNCHANGED <<dbLoading, recentDoubts, studyProgress, updatingProgress, dbToast, dbTimers,
                   dbMounted>>

\* the next event of the channel, of one of the doubt events
ReceiveDoubtEvent(event) ==
    /\ dbMounted
    /\ delivered < Len(published)
    /\ NextEvent.event = event
    /\ delivered' = delivered + 1

\* the new doubt put first without the list being cut
WithRecentDoubtUncut(prev, doubt) == <<doubt>> \o prev
\* prev => [doubt, ...prev].slice(0, 2) (line 309)
WithRecentDoubt(prev, doubt) == Take(<<doubt>> \o prev, MaxRecentDoubts)

\* handleDoubtCreated (lines 307-316)
HandleDoubtCreated ==
    /\ ReceiveDoubtEvent("doubt-created")
    /\ recentDoubts' = WithRecentDoubt(recentDoubts, NextEvent.doubt)
    /\ dbToast' = "New doubt added"
    /\ UNCHANGED <<dbLoading, upcomingStudySessions, studyProgress, updatingProgress, dbCalls,
                   dbTimers, dbMounted>>

\* handleDoubtUpdated (lines 319-336)
HandleDoubtUpdated ==
    /\ ReceiveDoubtEvent("doubt-updated")
    /\ recentDoubts' = [k \in DOMAIN recentDoubts |->
            IF recentDoubts[k].id = NextEvent.doubtId
            THEN [recentDoubts[k] EXCEPT !.answered = NextEvent.solved]
            ELSE recentDoubts[k]]
    /\ dbToast' = IF NextEvent.solved THEN "Doubt solved" ELSE dbToast
    /\ UNCHANGED <<dbLoading, upcomingStudySessions, studyProgress, updatingProgress, dbCalls,
                   dbTimers, dbMounted>>

\* the callback of setTimeout(..., 1000)
ResetUpdatingProgress ==
    /\ dbTimers > 0
    /\ dbTimers' = dbTimers - 1
    /\ updatingProgress' = SetState(updatingProgress, NULL)
    /\ UNCHANGED <<dbLoading, upcomingStudySessions, recentDoubts, studyProgress, dbCalls,
                   dbToast, dbMounted, delivered>>

\* the user leaves the page: the cleanup of the subscription effect (lines
\* 206-208) removes the channel; no request or timer is cancelled
Unmount ==
    /\ dbMounted
    /\ dbMounted' = FALSE
    /\ UNCHANGED <<dbLoading, upcomingStudySessions, recentDoubts, studyProgress,
                   updatingProgress, dbCalls, dbToast, dbTimers, delivered>>

InitDashboard ==
    /\ dbLoading = TRUE
    /\ upcomingStudySessions = <<>>
    /\ recentDoubts = <<>>
    /\ studyProgress = <<>>
    /\ updatingProgress = NULL
    /\ dbCalls = [i \in 1..MaxDashCalls |->
                    IF i = 1 THEN [DbIdle EXCEPT !.op = "fetchDashboardData",
                                                 !.pc = "readSessions"]
                    ELSE DbIdle]
    /\ dbToast = ""
    /\ dbTimers = 0
    /\ dbMounted = TRUE
    /\ delivered = 0

NextDashboard ==
    \/ \E i \in 1..MaxDashCalls, ok \in BOOLEAN : FetchDashReadSessions(i, ok) /\ OnlyDashboard
    \/ \E i \in 1..MaxDashCalls, ok \in BOOLEAN : FetchDashReadDoubts(i, ok) /\ OnlyDashboard
    \/ \E i \in 1..MaxDashCalls : FetchDashResume(i) /\ OnlyDashboard
    \/ \E i \in 1..MaxDashCalls, ok \in BOOLEAN : UpdateSubjectProgressRead(i, ok) /\ OnlyDashboard
    \/ \E i \in 1..MaxDashCalls : UpdateSubjectProgressResume(i) /\ OnlyDashboard
    \/ HandleSessionCreated /\ OnlyDashboard
    \/ HandleSessionUpdated /\ OnlyDashboard
    \/ HandleSessionCompleted /\ OnlyDashboard
    \/ HandleSessionDeleted /\ OnlyDashboard
    \/ ResetUpdatingProgress /\ OnlyDashboard
    \/ Unmount /\ OnlyDashboard

\* ---- the Dashboard open while other pages of the same user work: the
\* store holds more rows than the lists show, and the channel carries the
\* events those pages send
DashSeedSessions ==
    { SeedRow(1, "Math", Today + 1, NULL, 50), SeedRow(2, "Math", Today + 2, NULL, 0),
      SeedRow(3, "Physics", Today + 1, NULL, 0), SeedRow(4, "Chemistry", Today + 3, NULL, 0),
      SeedRow(5, "Physics", Today + 2, NULL, 0), SeedRow(6, "Chemistry", Today + 1, NULL, 100) }
DashSeedDoubts ==
    { [id |-> k, question |-> "old", solved |-> FALSE, subject |-> "General", timestamp |-> k]
        : k \in 1..3 }
\* the session a StudyPlanner page adds, as its payload
RemoteSession == SessionPayload(FormatSession(SeedRow(7, "Biology", Today + 1, NULL, 0)))
\* payload.doubt of 'doubt-created' (part_000, lines 197-204)
RemoteDoubt == [id |-> 9, question |-> "q", answered |-> FALSE, datetime |-> 9]
RemoteEvents ==
    { [NoEvent EXCEPT !.event = "session-created", !.session = RemoteSession],
      [NoEvent EXCEPT !.event = "session-restored", !.session = RemoteSession],
      [NoEvent EXCEPT !.event = "session-updated", !.sessionId = 1, !.progress = 100,
                      !.completed = TRUE, !.subject = "Math"],
      [NoEvent EXCEPT !.event = "session-completed", !.sessionId = 2, !.subject = "Math"],
      [NoEvent EXCEPT !.event = "session-deleted", !.sessionId = 3, !.subject = "Physics"],
      [event |-> "doubt-created", doubt |-> RemoteDoubt],
      [event |-> "doubt-updated", doubtId |-> 9, solved |-> TRUE] }

\* another page sends an event on 'dashboard-updates'
Broadcast(ev) ==
    /\ Len(published) < MaxBroadcasts
    /\ Send(ev)
    /\ UNCHANGED <<tz, study_sessions, sessionSeq, studySessions, plLoading, plCalls, plToast,
                   plOps>>
    /\ UNCHANGED <<fgVars, aggVars, dbVars, dsVars, pxVars, fmVars>>

NextOpenDashboard ==
    \/ NextDashboard
    \/ HandleDoubtCreated /\ OnlyDashboard
    \/ HandleDoubtUpdated /\ OnlyDashboard
    \/ \E ev \in RemoteEvents : Broadcast(ev)

\* =========================================================================
\*  DoubtSolver
\* =========================================================================
NoDoubt == [id |-> 0, question |-> "", timestamp |-> 0, solved |-> FALSE, subject |-> "",
            messages |-> <<>>]
NoDoubtRow == [id |-> 0, question |-> "", solved |-> FALSE, subject |-> "", timestamp |-> 0]
NoMessageRow == [id |-> 0, doubt_id |-> 0, content |-> "", sender |-> "", timestamp |-> 0]
Questions == {"q"}
Messages == {"m"}
Answer == "answer"
\* "I'm sorry, I encountered an error while processing your question. ..."
ErrorMessage == "apology"

\* message row -> Message (lines 73-78, 141-146); new Date(timestamp)
FormatMessage(row) ==
    [id |-> row.id, content |-> row.content, sender |-> row.sender,
     timestamp |-> row.timestamp]
\* doubt row and messages -> Doubt (lines 67-79, 135-147)
FormatDoubt(row, messages) ==
    [id |-> row.id, question |-> row.question, timestamp |-> row.timestamp,
     solved |-> row.solved, subject |-> row.subject, messages |-> messages]

RECURSIVE SortMessages(_)
\* .order('timestamp', {ascending: true}); rows of one timestamp by id
SortMessages(rows) ==
    IF rows = {} THEN <<>>
    ELSE LET first == CHOOSE r \in rows : \A q \in rows :
                        r.timestamp < q.timestamp \/ (r.timestamp = q.timestamp /\ r.id <= q.id)
         IN <<first>> \o SortMessages(rows \ {first})
\* the thread of a doubt as the store returns it
MessagesOf(doubtId) == SortMessages({m \in doubt_messages : m.doubt_id = doubtId})

\* doubts.map(d => d.id === updated.id ? updated : d)
ReplaceDoubt(list, updated) ==
    [k \in DOMAIN list |-> IF list[k].id = updated.id THEN updated ELSE list[k]]
\* {...doubt, messages: [...doubt.messages, message]}
WithMessage(doubt, row) == [doubt EXCEPT !.messages = Append(@, FormatMessage(row))]

\* cDoubts, cSel, text: the doubts, selectedDoubt and input text of the render
\* whose handler was invoked
DsIdle == [op |-> "idle", pc |-> "idle", cDoubts |-> <<>>, cSel |-> NoDoubt, text |-> "",
           sid |-> 0, doubtData |-> NoDoubtRow, resp |-> NoMessageRow, newDoubt |-> NoDoubt,
           data |-> <<>>, acc |-> <<>>, err |-> FALSE, failedAt |-> ""]
NoDsToast == [title |-> "", variant |-> ""]
DsNotify(title, variant) == [title |-> title, variant |-> variant]
DsAt(i, op, pc) == dsCalls[i].op = op /\ dsCalls[i].pc = pc
HasFreeDsSlot == \E i \in 1..MaxDoubtCalls : dsCalls[i].pc = "idle"
FreeDsSlot == CHOOSE i \in 1..MaxDoubtCalls :
                dsCalls[i].pc = "idle" /\ \A j \in 1..(i-1) : dsCalls[j].pc # "idle"
DsStart(call) ==
    /\ HasFreeDsSlot /\ dsOps < MaxDoubtOps
    /\ dsOps' = dsOps + 1
    /\ dsCalls' = [dsCalls EXCEPT ![FreeDsSlot] =
            [call EXCEPT !.cDoubts = doubts, !.cSel = selectedDoubt]]
    /\ UNCHANGED <<dsStore, dsView>>
\* the handler is over: how it ended is recorded
DsEnd(i, failedAt, notified, escaped) ==
    /\ dsCalls' = [dsCalls EXCEPT ![i] = DsIdle]
    /\ dsLog' = Append(dsLog, [op |-> dsCalls[i].op, failedAt |-> failedAt,
                               notified |-> notified, escaped |-> escaped])

\* insert(...).select('*').single() into doubt_messages: the row gets its id and
\* its timestamp from the store
InsertMessage(i, from, to, doubtId, content, sender, ok) ==
    /\ dsCalls[i].pc = from
    /\ IF ok
       THEN LET row == [id |-> Cardinality(doubt_messages) + 1, doubt_id |-> doubtId,
                        content |-> content, sender |-> sender, timestamp |-> storeClock]
            IN /\ doubt_messages' = doubt_messages \cup {row}
               /\ storeClock' = storeClock + 1
               /\ dsCalls' = [dsCalls EXCEPT ![i].pc = to, ![i].resp = row, ![i].err = FALSE]
       ELSE /\ dsCalls' = [dsCalls EXCEPT ![i].pc = to, ![i].err = TRUE]
            /\ UNCHANGED <<doubt_messages, storeClock>>
    /\ UNCHANGED <<doubtsTable, dsView, dsOps>>

\* the catch block of handleSubmitQuestion and handleSendMessage, up to its
\* await (lines 211-217, 330-336): with a selectedDoubt in the closure the
\* apology is sent to the store, without one the failure is only notified
Catch(i, at) ==
    IF dsCalls[i].cSel # NoDoubt
    THEN /\ dsCalls' = [dsCalls EXCEPT ![i].pc = "insertApology", ![i].err = FALSE,
                                       ![i].failedAt = at]
         /\ UNCHANGED <<dsToast, isGenerating, dsLog>>
    ELSE /\ dsToast' = DsNotify("Error generating answer", "destructive")
         /\ isGenerating' = FALSE
         /\ DsEnd(i, at, TRUE, FALSE)

\* the await of the catch block (lines 217-225, 336-344)
ApologyInsert(i, ok) ==
    /\ dsCalls[i].op \in {"handleSubmitQuestion", "handleSendMessage"}
    /\ InsertMessage(i, "insertApology", "apologyDone", dsCalls[i].cSel.id, ErrorMessage,
                     "ai", ok)

\* the rest of the catch block and the finally block (lines 227-253, 346-372): a
\* failed insert is thrown from inside the catch block
ApologyResume(i) ==
    /\ dsCalls[i].op \in {"handleSubmitQuestion", "handleSendMessage"}
    /\ dsCalls[i].pc = "apologyDone"
    /\ IF dsCalls[i].err
       THEN /\ DsEnd(i, dsCalls[i].failedAt, FALSE, TRUE)
            /\ UNCHANGED <<doubts, selectedDoubt, dsToast>>
       ELSE LET updatedDoubt == WithMessage(dsCalls[i].cSel, dsCalls[i].resp)
            IN /\ doubts' = ReplaceDoubt(dsCalls[i].cDoubts, updatedDoubt)
               /\ selectedDoubt' = updatedDoubt
               /\ dsToast' = DsNotify("Error generating answer", "destructive")
               /\ DsEnd(i, dsCalls[i].failedAt, TRUE, FALSE)
    /\ isGenerating' = FALSE
    /\ UNCHANGED <<dsStore, newQuestion, newMessage, dsLoading, dsPublished, dsOps>>

\* ---- handleSubmitQuestion (lines 107-254); the button is disabled while the
\* question is blank, an answer is being generated or the doubts are loading
SubmitQuestionStart ==
    /\ newQuestion # "" /\ ~isGenerating /\ ~dsLoading
    /\ Cardinality(doubtsTable)
         + Cardinality({i \in 1..MaxDoubtCalls : dsCalls[i].pc = "insertDoubt"}) < MaxDoubtRows
    /\ DsStart([DsIdle EXCEPT !.op = "handleSubmitQuestion", !.pc = "insertDoubt",
                              !.text = newQuestion])

SubmitInsertDoubt(i, ok) ==
    /\ DsAt(i, "handleSubmitQuestion", "insertDoubt")
    /\ IF ok
       THEN LET row == [id |-> Cardinality(doubtsTable) + 1, question |-> dsCalls[i].text,
                        solved |-> FALSE, subject |-> "General", timestamp |-> storeClock]
            IN /\ doubtsTable' = doubtsTable \cup {row}
               /\ storeClock' = storeClock + 1
               /\ dsCalls' = [dsCalls EXCEPT ![i].pc = "doubtDone", ![i].doubtData = row]
       ELSE /\ dsCalls' = [dsCalls EXCEPT ![i].pc = "doubtDone", ![i].err = TRUE]
            /\ UNCHANGED <<doubtsTable, storeClock>>
    /\ UNCHANGED <<doubt_messages, dsView, dsOps>>

SubmitAfterDoubt(i) ==
    /\ DsAt(i, "handleSubmitQuestion", "doubtDone")
    /\ IF dsCalls[i].err
       THEN Catch(i, "doubt")
       ELSE /\ dsCalls' = [dsCalls EXCEPT ![i].pc = "insertMessage"]
            /\ UNCHANGED <<dsToast, isGenerating, dsLog>>
    /\ UNCHANGED <<dsStore, doubts, selectedDoubt, newQuestion, newMessage, dsLoading,
                   dsPublished, dsOps>>

SubmitInsertMessage(i, ok) ==
    /\ dsCalls[i].op = "handleSubmitQuestion"
    /\ InsertMessage(i, "insertMessage", "messageDone", dsCalls[i].doubtData.id,
                     dsCalls[i].text, "user", ok)

\* a variant of SubmitAfterMessage that calls the proxy whatever the insert returned
SubmitAfterMessageAlwaysInvokes(i) ==
    /\ DsAt(i, "handleSubmitQuestion", "messageDone")
    /\ dsCalls' = [dsCalls EXCEPT ![i].pc = "invoke"]
    /\ isGenerating' = TRUE
    /\ UNCHANGED <<dsStore, doubts, selectedDoubt, newQuestion, newMessage, dsLoading,
                   dsToast, dsLog, dsPublished, dsOps>>
\* lines 133-158, up to the call of the proxy
SubmitAfterMessage(i) ==
    /\ DsAt(i, "handleSubmitQuestion", "messageDone")
    /\ IF dsCalls[i].err
       THEN /\ Catch(i, "message")
            /\ UNCHANGED <<doubts, selectedDoubt, newQuestion>>
       ELSE LET newDoubt == FormatDoubt(dsCalls[i].doubtData,
                                        <<FormatMessage(dsCalls[i].resp)>>)
            IN /\ doubts' = <<newDoubt>> \o dsCalls[i].cDoubts
               /\ selectedDoubt' = newDoubt
               /\ newQuestion' = ""
               /\ isGenerating' = TRUE
               /\ dsCalls' = [dsCalls EXCEPT ![i].pc = "invoke", ![i].newDoubt = newDoubt]
               /\ UNCHANGED <<dsToast, dsLog>>
    /\ UNCHANGED <<dsStore, newMessage, dsLoading, dsPublished, dsOps>>

\* supabase.functions.invoke('doubt-solver') returns (lines 154-162)
SubmitInvoke(i, ok) ==
    /\ DsAt(i, "handleSubmitQuestion", "invoke")
    /\ IF ok
       THEN /\ dsCalls' = [dsCalls EXCEPT ![i].pc = "insertAnswer"]
            /\ UNCHANGED <<dsToast, isGenerating, dsLog>>
       ELSE Catch(i, "proxy")
    /\ UNCHANGED <<dsStore, doubts, selectedDoubt, newQuestion, newMessage, dsLoading,
                   dsPublished, dsOps>>

SubmitInsertAnswer(i, ok) ==
    /\ dsCalls[i].op = "handleSubmitQuestion"
    /\ InsertMessage(i, "insertAnswer", "answerDone", dsCalls[i].doubtData.id, Answer,
                     "ai", ok)

\* lines 174-210 and the finally block
SubmitAfterAnswer(i) ==
    /\ DsAt(i, "handleSubmitQuestion", "answerDone")
    /\ IF dsCalls[i].err
       THEN /\ Catch(i, "answer")
            /\ UNCHANGED <<doubts, selectedDoubt, dsPublished>>
       ELSE LET updatedDoubt == WithMessage(dsCalls[i].newDoubt, dsCalls[i].resp)
            IN /\ doubts' = ReplaceDoubt(dsCalls[i].cDoubts, updatedDoubt)
               /\ selectedDoubt' = updatedDoubt
               /\ dsPublished' = Append(dsPublished,
                      [event |-> "doubt-created", doubtId |-> updatedDoubt.id,
                       question |-> updatedDoubt.question, answered |-> FALSE])
               /\ dsToast' = DsNotify("Answer generated", "default")
               /\ isGenerating' = FALSE
               /\ DsEnd(i, "", FALSE, FALSE)
    /\ UNCHANGED <<dsStore, newQuestion, newMessage, dsLoading, dsOps>>

\* ---- handleSendMessage (lines 256-373); input and button are disabled while
\* an answer is being generated, and shown for the selected doubt once loaded
SendMessageStart ==
    /\ newMessage # "" /\ selectedDoubt # NoDoubt /\ ~isGenerating /\ ~dsLoading
    /\ DsStart([DsIdle EXCEPT !.op = "handleSendMessage", !.pc = "insertMessage",
                              !.text = newMessage])

SendInsertMessage(i, ok) ==
    /\ dsCalls[i].op = "handleSendMessage"
    /\ InsertMessage(i, "insertMessage", "messageDone", dsCalls[i].cSel.id,
                     dsCalls[i].text, "user", ok)

\* lines 270-298, up to the call of the proxy
SendAfterMessage(i) ==
    /\ DsAt(i, "handleSendMessage", "messageDone")
    /\ IF dsCalls[i].err
       THEN /\ Catch(i, "message")
            /\ UNCHANGED <<doubts, selectedDoubt, newMessage>>
       ELSE LET updatedDoubt == WithMessage(dsCalls[i].cSel, dsCalls[i].resp)
            IN /\ doubts' = ReplaceDoubt(dsCalls[i].cDoubts, updatedDoubt)
               /\ selectedDoubt' = updatedDoubt
               /\ newMessage' = ""
               /\ isGenerating' = TRUE
               /\ dsCalls' = [dsCalls EXCEPT ![i].pc = "invoke", ![i].newDoubt = updatedDoubt]
               /\ UNCHANGED <<dsToast, dsLog>>
    /\ UNCHANGED <<dsStore, newQuestion, dsLoading, dsPublished, dsOps>>

SendInvoke(i, ok) ==
    /\ DsAt(i, "handleSendMessage", "invoke")
    /\ IF ok
       THEN /\ dsCalls' = [dsCalls EXCEPT ![i].pc = "insertAnswer"]
            /\ UNCHANGED <<dsToast, isGenerating, dsLog>>
       ELSE Catch(i, "proxy")
    /\ UNCHANGED <<dsStore, doubts, selectedDoubt, newQuestion, newMessage, dsLoading,
                   dsPublished, dsOps>>

SendInsertAnswer(i, ok) ==
    /\ dsCalls[i].op = "handleSendMessage"
    /\ InsertMessage(i, "insertAnswer", "answerDone", dsCalls[i].cSel.id, Answer, "ai", ok)

\* lines 314-329 and the finally block
SendAfterAnswer(i) ==
    /\ DsAt(i, "handleSendMessage", "answerDone")
    /\ IF dsCalls[i].err
       THEN /\ Catch(i, "answer")
            /\ UNCHANGED <<doubts, selectedDoubt>>
       ELSE LET finalDoubt == WithMessage(dsCalls[i].newDoubt, dsCalls[i].resp)
            IN /\ doubts' = ReplaceDoubt(dsCalls[i].cDoubts, finalDoubt)
               /\ selectedDoubt' = finalDoubt
               /\ isGenerating' = FALSE
               /\ DsEnd(i, "", FALSE, FALSE)
               /\ UNCHANGED dsToast
    /\ UNCHANGED <<dsStore, newQuestion, newMessage, dsLoading, dsPublished, dsOps>>

\* ---- markAsSolved (lines 375-417), from the button of the selected doubt
MarkSolvedStart ==
    /\ ~dsLoading /\ selectedDoubt # NoDoubt /\ ~selectedDoubt.solved
    /\ DsStart([DsIdle EXCEPT !.op = "markAsSolved", !.pc = "update",
                              !.sid = selectedDoubt.id])

MarkSolvedStore(i, ok) ==
    /\ DsAt(i, "markAsSolved", "update")
    /\ doubtsTable' = IF ok THEN {IF r.id = dsCalls[i].sid THEN [r EXCEPT !.solved = TRUE]
                                  ELSE r : r \in doubtsTable}
                      ELSE doubtsTable
    /\ dsCalls' = [dsCalls EXCEPT ![i].pc = "resume", ![i].err = ~ok]
    /\ UNCHANGED <<doubt_messages, storeClock, dsView, dsOps>>

MarkSolvedResume(i) ==
    /\ DsAt(i, "markAsSolved", "resume")
    /\ IF dsCalls[i].err
       THEN /\ dsToast' = DsNotify("Error updating doubt", "destructive")
            /\ DsEnd(i, "update", TRUE, FALSE)
            /\ UNCHANGED <<doubts, selectedDoubt, dsPublished>>
       ELSE /\ doubts' = [k \in DOMAIN dsCalls[i].cDoubts |->
                            IF dsCalls[i].cDoubts[k].id = dsCalls[i].sid
                            THEN [dsCalls[i].cDoubts[k] EXCEPT !.solved = TRUE]
                            ELSE dsCalls[i].cDoubts[k]]
            /\ selectedDoubt' = IF dsCalls[i].cSel # NoDoubt /\ dsCalls[i].cSel.id = dsCalls[i].sid
                                THEN [dsCalls[i].cSel EXCEPT !.solved = TRUE]
                                ELSE selectedDoubt
            /\ dsPublished' = Append(dsPublished,
                    [event |-> "doubt-updated", doubtId |-> dsCalls[i].sid,
                     question |-> "", answered |-> TRUE])
            /\ dsToast' = DsNotify("Doubt marked as solved", "default")
            /\ DsEnd(i, "", FALSE, FALSE)
    /\ UNCHANGED <<dsStore, newQuestion, newMessage, isGenerating, dsLoading, dsOps>>

\* ---- fetchDoubts (lines 42-97), started by the mount effect
FetchDoubtsRead(i, ok) ==
    /\ DsAt(i, "fetchDoubts", "readDoubts")
    /\ dsCalls' = [dsCalls EXCEPT ![i].pc = "next", ![i].err = ~ok,
                                  ![i].data = IF ok THEN SortDoubts(doubtsTable) ELSE <<>>]
    /\ UNCHANGED <<dsStore, dsView, dsOps>>

\* one pass of the loop over the doubts: the messages of the next doubt are read
FetchMessagesRead(i, ok) ==
    /\ DsAt(i, "fetchDoubts", "readMessages")
    /\ LET doubt == dsCalls[i].data[Len(dsCalls[i].acc) + 1]
           messagesData == MessagesOf(doubt.id)
       IN dsCalls' = [dsCalls EXCEPT ![i].pc = "next", ![i].err = ~ok,
               ![i].acc = IF ok
                          THEN Append(@, FormatDoubt(doubt,
                                   [k \in DOMAIN messagesData |-> FormatMessage(messagesData[k])]))
                          ELSE @]
    /\ UNCHANGED <<dsStore, dsView, dsOps>>

\* the code between two awaits of fetchDoubts; the selectedDoubt of the
\* closure is the initial null
FetchDoubtsNext(i) ==
    /\ DsAt(i, "fetchDoubts", "next")
    /\ IF dsCalls[i].err
       THEN /\ dsToast' = DsNotify("Error loading doubts", "destructive")
            /\ dsLoading' = FALSE
            /\ dsCalls' = [dsCalls EXCEPT ![i] = DsIdle]
            /\ UNCHANGED <<doubts, selectedDoubt>>
       ELSE IF Len(dsCalls[i].acc) < Len(dsCalls[i].data)
       THEN /\ dsCalls' = [dsCalls EXCEPT ![i].pc = "readMessages"]
            /\ UNCHANGED <<doubts, selectedDoubt, dsToast, dsLoading>>
       ELSE /\ doubts' = dsCalls[i].acc
            /\ selectedDoubt' = IF Len(dsCalls[i].acc) > 0 THEN dsCalls[i].acc[1]
                                ELSE selectedDoubt
            /\ dsLoading' = FALSE
            /\ dsCalls' = [dsCalls EXCEPT ![i] = DsIdle]
            /\ UNCHANGED dsToast
    /\ UNCHANGED <<dsStore, newQuestion, newMessage, isGenerating, dsLog, dsPublished, dsOps>>

\* ---- the inputs and the list
TypeQuestion(q) ==
    /\ newQuestion # q
    /\ newQuestion' = q
    /\ UNCHANGED <<dsStore, doubts, selectedDoubt, newMessage, isGenerating, dsLoading,
                   dsToast, dsLog, dsPublished, dsCalls, dsOps>>

TypeMessage(m) ==
    /\ ~dsLoading /\ selectedDoubt # NoDoubt /\ ~isGenerating
    /\ newMessage # m
    /\ newMessage' = m
    /\ UNCHANGED <<dsStore, doubts, selectedDoubt, newQuestion, isGenerating, dsLoading,
                   dsToast, dsLog, dsPublished, dsCalls, dsOps>>

SelectDoubt(k) ==
    /\ ~dsLoading /\ k \in DOMAIN doubts
    /\ selectedDoubt # doubts[k]
    /\ selectedDoubt' = doubts[k]
    /\ UNCHANGED <<dsStore, doubts, newQuestion, newMessage, isGenerating, dsLoading,
                   dsToast, dsLog, dsPublished, dsCalls, dsOps>>

\* ---- the rows the store holds when the page is opened
SeedDoubtStores ==
    { [doubts |-> {}, messages |-> {}],
      [doubts |-> {[id |-> 1, question |-> "old", solved |-> FALSE, subject |-> "General",
                    timestamp |-> 1]},
       messages |-> {[id |-> 1, doubt_id |-> 1, content |-> "old", sender |-> "user",
                      timestamp |-> 1],
                     [id |-> 2, doubt_id |-> 1, content |-> Answer, sender |-> "ai",
                      timestamp |-> 2]}] }

InitDoubt ==
    /\ \E seed \in SeedDoubtStores :
        /\ doubtsTable = seed.doubts
        /\ doubt_messages = seed.messages
    /\ storeClock = 3
    /\ doubts = <<>>
    /\ selectedDoubt = NoDoubt
    /\ newQuestion = ""
    /\ newMessage = ""
    /\ isGenerating = FALSE
    /\ dsLoading = TRUE
    /\ dsCalls = [i \in 1..MaxDoubtCalls |->
                    IF i = 1 THEN [DsIdle EXCEPT !.op = "fetchDoubts", !.pc = "readDoubts"]
                    ELSE DsIdle]
    /\ dsToast = NoDsToast
    /\ dsLog = <<>>
    /\ dsPublished = <<>>
    /\ dsOps = 0

NextDoubt ==
    \/ \E i \in 1..MaxDoubtCalls, ok \in BOOLEAN : FetchDoubtsRead(i, ok) /\ OnlyDoubt
    \/ \E i \in 1..MaxDoubtCalls, ok \in BOOLEAN : FetchMessagesRead(i, ok) /\ OnlyDoubt
    \/ \E i \in 1..MaxDoubtCalls : FetchDoubtsNext(i) /\ OnlyDoubt
    \/ \E q \in Questions : TypeQuestion(q) /\ OnlyDoubt
    \/ \E m \in Messages : TypeMessage(m) /\ OnlyDoubt
    \/ \E k \in 1..MaxDoubtRows : SelectDoubt(k) /\ OnlyDoubt
    \/ SubmitQuestionStart /\ OnlyDoubt
    \/ \E i \in 1..MaxDoubtCalls, ok \in BOOLEAN : SubmitInsertDoubt(i, ok) /\ OnlyDoubt
    \/ \E i \in 1..MaxDoubtCalls : SubmitAfterDoubt(i) /\ OnlyDoubt
    \/ \E i \in 1..MaxDoubtCalls, ok \in BOOLEAN : SubmitInsertMessage(i, ok) /\ OnlyDoubt
    \/ \E i \in 1..MaxDoubtCalls : SubmitAfterMessage(i) /\ OnlyDoubt
    \/ \E i \in 1..MaxDoubtCalls, ok \in BOOLEAN : SubmitInvoke(i, ok) /\ OnlyDoubt
    \/ \E i \in 1..MaxDoubtCalls, ok \in BOOLEAN : SubmitInsertAnswer(i, ok) /\ OnlyDoubt
    \/ \E i \in 1..MaxDoubtCalls : SubmitAfterAnswer(i) /\ OnlyDoubt
    \/ SendMessageStart /\ OnlyDoubt
    \/ \E i \in 1..MaxDoubtCalls, ok \in BOOLEAN : SendInsertMessage(i, ok) /\ OnlyDoubt
    \/ \E i \in 1..MaxDoubtCalls : SendAfterMessage(i) /\ OnlyDoubt
    \/ \E i \in 1..MaxDoubtCalls, ok \in BOOLEAN : SendInvoke(i, ok) /\ OnlyDoubt
    \/ \E i \in 1..MaxDoubtCalls, ok \in BOOLEAN : SendInsertAnswer(i, ok) /\ OnlyDoubt
    \/ \E i \in 1..MaxDoubtCalls : SendAfterAnswer(i) /\ OnlyDoubt
    \/ \E i \in 1..MaxDoubtCalls, ok \in BOOLEAN : ApologyInsert(i, ok) /\ OnlyDoubt
    \/ \E i \in 1..MaxDoubtCalls : ApologyResume(i) /\ OnlyDoubt
    \/ MarkSolvedStart /\ OnlyDoubt
    \/ \E i \in 1..MaxDoubtCalls, ok \in BOOLEAN : MarkSolvedStore(i, ok) /\ OnlyDoubt
    \/ \E i \in 1..MaxDoubtCalls : MarkSolvedResume(i) /\ OnlyDoubt

\* =========================================================================
\*  generate-flashcards: the proxy function
\* =========================================================================
\* The generated text is a sequence of tokens: "FC" is a header matched by
\* /Flashcard \d+:/, "Front" and "Back" are the markers matched by
\* /Front:|Back:/, "sp" is white space, "w" is other text; "[" and "]" are
\* brackets, "card" is a JSON object with non-empty front and back, "obj" a
\* JSON object without them.
Tokens == {"FC", "Front", "Back", "sp", "w", "[", "]", "card", "obj"}
Markers == {"Front", "Back"}
Texts == UNION {[1..n -> Tokens] : n \in 1..MaxTextLen}

NoResponse == [status |-> 0, error |-> "", flashcards |-> <<>>]
Success(cards) == [status |-> 200, error |-> "", flashcards |-> cards]
Failure(status, error) == [status |-> status, error |-> error, flashcards |-> <<>>]

Positions(text, tokens) == {k \in DOMAIN text : text[k] \in tokens}
Min(S) == CHOOSE k \in S : \A j \in S : k <= j
Max(S) == CHOOSE k \in S : \A j \in S : k >= j

\* generatedText.match(/\[[\s\S]*\]/): from the first "[" to the last "]"
JsonString(text) ==
    LET opens == Positions(text, {"["})
        closes == Positions(text, {"]"})
    IN IF opens # {} /\ closes # {} /\ Min(opens) < Max(closes)
       THEN SubSeq(text, Min(opens), Max(closes))
       ELSE text

RECURSIVE IsJsonValue(_)
\* whether JSON.parse accepts the tokens (white space removed); without commas
\* an array holds at most one element
IsJsonValue(ts) ==
    \/ ts = <<"card">>
    \/ ts = <<"obj">>
    \/ /\ Len(ts) >= 2 /\ ts[1] = "[" /\ ts[Len(ts)] = "]"
       /\ LET inner == SubSeq(ts, 2, Len(ts) - 1)
          IN inner = <<>> \/ IsJsonValue(inner)

Throws == [throws |-> TRUE, cards |-> <<>>]
\* lines 109-125: the cards of the structured parse, or the exception of
\* JSON.parse or of the format check
StructuredParse(text) ==
    LET ts == SelectSeq(JsonString(text), LAMBDA t : t # "sp")
    IN IF ~IsJsonValue(ts) THEN Throws
       ELSE IF ts[1] # "[" THEN Throws                   \* not an array
       ELSE LET elements == SubSeq(ts, 2, Len(ts) - 1)
            IN IF elements = <<>> \/ elements = <<"card">>
               THEN [throws |-> FALSE,
                     cards |-> [k \in DOMAIN elements |-> [front |-> <<"w">>, back |-> <<"w">>]]]
               ELSE Throws                                \* an element lacks front or back

RECURSIVE SplitAt(_, _)
\* String.prototype.split with a pattern that matches the tokens seps
SplitAt(text, seps) ==
    LET hits == Positions(text, seps)
    IN IF hits = {} THEN <<text>>
       ELSE <<SubSeq(text, 1, Min(hits) - 1)>>
            \o SplitAt(SubSeq(text, Min(hits) + 1, Len(text)), seps)

\* .filter(Boolean) on strings: the empty string is dropped
NonEmpty(parts) == SelectSeq(parts, LAMBDA p : p # <<>>)

\* String.prototype.trim
Trim(text) ==
    LET solid == {k \in DOMAIN text : text[k] # "sp"}
    IN IF solid = {} THEN <<>> ELSE SubSeq(text, Min(solid), Max(solid))

RECURSIVE ExtractCards(_)
\* the loop of lines 133-141 over the sections
ExtractCards(sections) ==
    IF sections = <<>> THEN <<>>
    ELSE LET parts == NonEmpty(SplitAt(Head(sections), Markers))
         IN (IF Len(parts) >= 2
             THEN <<[front |-> Trim(parts[1]), back |-> Trim(parts[2])]>>
             ELSE <<>>) \o ExtractCards(Tail(sections))

\* lines 130-141: the text-based extraction
Fallback(text) == ExtractCards(NonEmpty(SplitAt(text, {"FC"})))

\* lines 108-162
ParseResponse(text) ==
    LET structured == StructuredParse(text)
    IN IF ~structured.throws THEN Success(structured.cards)
       ELSE LET extracted == Fallback(text)
            IN IF extracted = <<>>
               THEN Failure(422, "Failed to parse flashcards from AI response")
               ELSE Success(extracted)

\* the request and the answer of the model API
Requests == {[keySet |-> k, text |-> t] : k \in BOOLEAN, t \in {"", "notes"}}
Upstreams == {[ok |-> o, hasText |-> h] : o \in BOOLEAN, h \in BOOLEAN}

\* lines 18-48: the checks before the model API is called
ReceiveRequest ==
    /\ pxPc = "start"
    /\ IF ~pxRequest.keySet
       THEN pxResponse' = Failure(500, "API key configuration error") /\ pxPc' = "done"
       ELSE IF pxRequest.text = ""
       THEN pxResponse' = Failure(400, "No text provided for flashcard generation")
            /\ pxPc' = "done"
       ELSE pxPc' = "fetch" /\ UNCHANGED pxResponse
    /\ UNCHANGED <<pxRequest, pxUpstream, generatedText>>

\* lines 79-162: the model API has answered
UpstreamReturns ==
    /\ pxPc = "fetch"
    /\ pxResponse' = IF ~pxUpstream.ok THEN Failure(502, "Gemini API error")
                     ELSE IF ~pxUpstream.hasText
                     THEN Failure(422, "Failed to generate flashcards")
                     ELSE ParseResponse(generatedText)
    /\ pxPc' = "done"
    /\ UNCHANGED <<pxRequest, pxUpstream, generatedText>>

\* a request is either in order, with any answer of the model, or fails one check
InitProxy ==
    /\ generatedText \in Texts
    /\ \/ pxRequest = [keySet |-> TRUE, text |-> "notes"]
          /\ pxUpstream = [ok |-> TRUE, hasText |-> TRUE]
       \/ /\ generatedText = <<"w">>
          /\ pxRequest \in Requests /\ pxUpstream \in Upstreams
    /\ pxPc = "start"
    /\ pxResponse = NoResponse

NextProxy ==
    \/ ReceiveRequest /\ OnlyProxy
    \/ UpstreamReturns /\ OnlyProxy

\* the text was handed to the parser
Parsed ==
    /\ pxPc = "done" /\ pxRequest.keySet /\ pxRequest.text # ""
    /\ pxUpstream.ok /\ pxUpstream.hasText

\* a run of text that holds something besides white space and no marker or header
IsContent(text) ==
    /\ \A k \in DOMAIN text : text[k] \notin Markers \cup {"FC"}
    /\ \E k \in DOMAIN text : text[k] # "sp"
\* the text from position k up to the next marker or header, or to the end
RunFrom(text, k) ==
    LET stops == {j \in k..Len(text) : text[j] \in Markers \cup {"FC"}}
    IN SubSeq(text, k, IF stops = {} THEN Len(text) ELSE Min(stops) - 1)
\* the text holds a section "Flashcard N: Front: ... Back: ..."
HasSection(text) ==
    \E i, j, k \in DOMAIN text :
        /\ i < j /\ j < k
        /\ text[i] = "FC" /\ text[j] = "Front" /\ text[k] = "Back"
        /\ \A n \in (i + 1)..(j - 1) : text[n] = "sp"
        /\ IsContent(SubSeq(text, j + 1, k - 1))
        /\ IsContent(RunFrom(text, k + 1))

\* C8: a model response that fails the structured parse but holds
\* "Flashcard N: Front: ... Back: ..." sections yields a success response with a
\* non-empty flashcard list; one that fails the structured parse and holds no
\* such section yields an error response.
C8_FallbackOrError ==
    (Parsed /\ StructuredParse(generatedText).throws) =>
        IF HasSection(generatedText)
        THEN pxResponse.status = 200 /\ pxResponse.flashcards # <<>>
        ELSE pxResponse.status # 200 /\ pxResponse.error # ""

\* card is made of one "Flashcard N:" section of the text: its front is the
\* text that follows "Front:" and its back the text that follows "Back:"
FromSection(text, card) ==
    \E i, j, k \in DOMAIN text :
        /\ i < j /\ i < k
        /\ text[i] = "FC" /\ text[j] = "Front" /\ text[k] = "Back"
        /\ \A n \in (i + 1)..k : text[n] # "FC"
        /\ \A n \in (i + 1)..j : text[n] # "FC"
        /\ card.front = Trim(RunFrom(text, j + 1))
        /\ card.back = Trim(RunFrom(text, k + 1))

\* C28: every success response of the function has at least one card, and
\* only cards whose front and back are both non-empty; on the fallback path
\* the front of each card is the text after "Front:" and its back the text
\* after "Back:" of one "Flashcard N:" section.
C28_SuccessCardsWellFormed ==
    (Parsed /\ pxResponse.status = 200) =>
        /\ pxResponse.flashcards # <<>>
        /\ \A k \in DOMAIN pxResponse.flashcards :
              /\ pxResponse.flashcards[k].front # <<>>
              /\ pxResponse.flashcards[k].back # <<>>
              /\ StructuredParse(generatedText).throws =>
                    FromSection(generatedText, pxResponse.flashcards[k])

\* =========================================================================
\*  The two generation forms: UploadNotesSection and NotesSummarizer
\* =========================================================================
\* A text field holds a sequence of the tokens "sp" (white space) and "w"
\* (other text).
FormTexts == {<<>>, <<"sp">>, <<"w">>}
\* the placeholder text an uploaded PDF puts into the field
PdfText == <<"w">>
IsBlank(text) == Trim(text) = <<>>
\* both functions answer 400 to a text that is empty after trim (index.ts, line 39)
Answers(text) == IF IsBlank(text) THEN {FALSE} ELSE BOOLEAN
Invoke(fn, text) ==
    /\ Len(invoked) < MaxInvocations
    /\ invoked' = Append(invoked, [fn |-> fn, text |-> text])

\* ---- UploadNotesSection
\* the notes field: onChange={(e) => setNotes(e.target.value)}
SetNotes(text) ==
    /\ notes # text
    /\ notes' = text
    /\ UNCHANGED <<uploadedFile, isLoading, unRequest, unToast, nsVars, invoked>>

\* handleFileUpload (lines 210-238)
HandleFileUpload(isPdf) ==
    /\ ~uploadedFile
    /\ IF isPdf
       THEN uploadedFile' = TRUE /\ notes' = PdfText /\ unToast' = "File uploaded"
       ELSE unToast' = "Invalid file type" /\ UNCHANGED <<uploadedFile, notes>>
    /\ UNCHANGED <<isLoading, unRequest, nsVars, invoked>>

\* removeUploadedFile (lines 240-246)
RemoveUploadedFile ==
    /\ uploadedFile
    /\ uploadedFile' = FALSE
    /\ notes' = <<>>
    /\ UNCHANGED <<isLoading, unRequest, unToast, nsVars, invoked>>

\* the button is disabled={isLoading || (!notes.trim() && !uploadedFile)}
GenerateDisabled == isLoading \/ (IsBlank(notes) /\ ~uploadedFile)

\* handleGenerateFlashcards (lines 249-299), up to the call of the function
GenerateFlashcardsStart ==
    /\ ~GenerateDisabled
    /\ IF IsBlank(notes) /\ ~uploadedFile
       THEN unToast' = "Notes required" /\ UNCHANGED <<isLoading, unRequest, invoked>>
       ELSE /\ isLoading' = TRUE
            /\ unRequest' = notes
            /\ Invoke("generate-flashcards", notes)
            /\ UNCHANGED unToast
    /\ UNCHANGED <<notes, uploadedFile, nsVars>>

\* the function has answered
GenerateFlashcardsReturn(ok) ==
    /\ isLoading /\ ok \in Answers(unRequest)
    /\ unToast' = IF ok THEN "Flashcards generated" ELSE "Generation failed"
    /\ isLoading' = FALSE
    /\ UNCHANGED <<notes, uploadedFile, unRequest, nsVars, invoked>>

\* ---- NotesSummarizer
SetInputText(text) ==
    /\ inputText # text
    /\ inputText' = text
    /\ UNCHANGED <<nsUploadedFile, nsExtracting, nsIsGenerating, nsRequest, summaryText,
                   nsError, nsToast, unVars, invoked>>

\* handleFileUpload (lines 116-153), up to the await of extractTextFromPDF
FileUploadStart(isPdf) ==
    /\ ~nsUploadedFile /\ ~nsExtracting
    /\ IF isPdf
       THEN nsUploadedFile' = TRUE /\ nsExtracting' = TRUE /\ UNCHANGED nsToast
       ELSE nsToast' = "Invalid file type" /\ UNCHANGED <<nsUploadedFile, nsExtracting>>
    /\ UNCHANGED <<inputText, nsIsGenerating, nsRequest, summaryText, nsError, unVars,
                   invoked>>

\* the FileReader has loaded the file
FileUploadResume ==
    /\ nsExtracting
    /\ nsExtracting' = FALSE
    /\ inputText' = PdfText
    /\ nsToast' = "PDF uploaded"
    /\ UNCHANGED <<nsUploadedFile, nsIsGenerating, nsRequest, summaryText, nsError, unVars,
                   invoked>>

\* removeUploadedFile (lines 155-161)
NsRemoveUploadedFile ==
    /\ nsUploadedFile
    /\ nsUploadedFile' = FALSE
    /\ inputText' = <<>>
    /\ UNCHANGED <<nsExtracting, nsIsGenerating, nsRequest, summaryText, nsError, nsToast,
                   unVars, invoked>>

\* the button is disabled={isGenerating || (!inputText.trim() && !uploadedFile)}
SummaryDisabled == nsIsGenerating \/ (IsBlank(inputText) /\ ~nsUploadedFile)

\* handleGenerateSummary (lines 54-101), up to the call of the function
GenerateSummaryStart ==
    /\ ~SummaryDisabled
    /\ IF IsBlank(inputText) /\ ~nsUploadedFile
       THEN /\ nsToast' = "No content to summarize"
            /\ UNCHANGED <<nsIsGenerating, nsRequest, nsError, invoked>>
       ELSE /\ nsIsGenerating' = TRUE
            /\ nsError' = NULL
            /\ nsRequest' = inputText
            /\ Invoke("summarize-notes", inputText)
            /\ UNCHANGED nsToast
    /\ UNCHANGED <<inputText, nsUploadedFile, nsExtracting, summaryText, unVars>>

GenerateSummaryReturn(ok) ==
    /\ nsIsGenerating /\ ok \in Answers(nsRequest)
    /\ IF ok
       THEN summaryText' = <<"w">> /\ nsToast' = "Summary generated" /\ UNCHANGED nsError
       ELSE /\ nsError' = "Failed to generate summary"
            /\ nsToast' = "Error generating summary"
            /\ UNCHANGED summaryText
    /\ nsIsGenerating' = FALSE
    /\ UNCHANGED <<inputText, nsUploadedFile, nsExtracting, nsRequest, unVars, invoked>>

InitForms ==
    /\ notes = <<>> /\ uploadedFile = FALSE /\ isLoading = FALSE /\ unRequest = <<>>
    /\ unToast = ""
    /\ inputText = <<>> /\ nsUploadedFile = FALSE /\ nsExtracting = FALSE
    /\ nsIsGenerating = FALSE /\ nsRequest = <<>> /\ summaryText = <<>> /\ nsError = NULL
    /\ nsToast = ""
    /\ invoked = <<>>

NextForms ==
    \/ \E text \in FormTexts : SetNotes(text) /\ OnlyForms
    \/ \E isPdf \in BOOLEAN : HandleFileUpload(isPdf) /\ OnlyForms
    \/ RemoveUploadedFile /\ OnlyForms
    \/ GenerateFlashcardsStart /\ OnlyForms
    \/ \E ok \in BOOLEAN : GenerateFlashcardsReturn(ok) /\ OnlyForms
    \/ \E text \in FormTexts : SetInputText(text) /\ OnlyForms
    \/ \E isPdf \in BOOLEAN : FileUploadStart(isPdf) /\ OnlyForms
    \/ FileUploadResume /\ OnlyForms
    \/ NsRemoveUploadedFile /\ OnlyForms
    \/ GenerateSummaryStart /\ OnlyForms
    \/ \E ok \in BOOLEAN : GenerateSummaryReturn(ok) /\ OnlyForms

\* =========================================================================
\*  Properties of the DoubtSolver
\* =========================================================================
DsQuiet == \A i \in 1..MaxDoubtCalls : dsCalls[i].pc = "idle"

\* the doubt rows written by this view: those the store did not start with
CreatedHere == doubtsTable \ UNION {seed.doubts : seed \in SeedDoubtStores}
\* the thread of a doubt as the view would show the store's rows
StoreThread(doubtId) ==
    LET rows == MessagesOf(doubtId) IN [k \in DOMAIN rows |-> FormatMessage(rows[k])]

\* no handler that ran met a failure other than the proxy's: every store
\* write it made was accepted
OnlyProxyFailed ==
    \A k \in DOMAIN dsLog : dsLog[k].failedAt \in {"", "proxy"} /\ ~dsLog[k].escaped

\* C25: after each completed handleSubmitQuestion or handleSendMessage,
\* whether the proxy succeeded or failed, the view matches the store: the
\* doubts list has every doubt created in this view, and the messages of
\* each doubt of the list are the store's messages of that doubt, in order.
C25_ViewMatchesStore ==
    (DsQuiet /\ ~dsLoading /\ OnlyProxyFailed) =>
        /\ \A row \in CreatedHere : \E k \in DOMAIN doubts : doubts[k].id = row.id
        /\ \A k \in DOMAIN doubts : doubts[k].messages = StoreThread(doubts[k].id)

\* C4: every doubt of the store has a thread of at least one message, with
\* non-decreasing timestamps in thread order, also after a step of
\* handleSubmitQuestion or handleSendMessage has failed.  It is checked in the
\* states where no handler is in flight, so that the window between the two
\* inserts of a running handleSubmitQuestion is not counted.
C4_DoubtsHaveMessages ==
    DsQuiet =>
        \A d \in doubtsTable :
            LET thread == MessagesOf(d.id)
            IN /\ Len(thread) >= 1
               /\ \A k \in 1..(Len(thread) - 1) : thread[k].timestamp <= thread[k + 1].timestamp

\* the step that ends a handleSubmitQuestion whose proxy call failed after the
\* doubt and its first message were stored, the apology insert, if one was
\* made, having succeeded
ProxyFailureHandled(i) ==
    /\ dsCalls[i].op = "handleSubmitQuestion"
    /\ dsCalls'[i].pc = "idle"
    /\ \/ dsCalls[i].pc = "invoke" /\ dsCalls[i].cSel = NoDoubt
       \/ dsCalls[i].pc = "apologyDone" /\ dsCalls[i].failedAt = "proxy" /\ ~dsCalls[i].err

IsApology(m) == m.sender = "ai" /\ m.content = ErrorMessage

\* C9: when handleSubmitQuestion has stored the doubt and its first message and
\* the proxy then fails, the doubt and its first message stay in the store and
\* an apology message of sender 'ai' is appended to the thread of the new doubt
\* and to no other thread, in the store and in the view, whatever doubt was
\* selected before, if any.
C9_ApologyOnNewThread ==
    [][\A i \in 1..MaxDoubtCalls :
        ProxyFailureHandled(i) =>
            LET newDoubt == dsCalls[i].newDoubt
                thread == SortMessages({m \in doubt_messages' : m.doubt_id = newDoubt.id})
                shown == {k \in DOMAIN doubts' : doubts'[k].id = newDoubt.id}
            IN /\ \E d \in doubtsTable' : d.id = newDoubt.id
               /\ thread # <<>>
               /\ thread[1].sender = "user" /\ thread[1].content = newDoubt.question
               /\ \E k \in DOMAIN thread : IsApology(thread[k])
               /\ dsCalls[i].pc = "apologyDone" => dsCalls[i].resp.doubt_id = newDoubt.id
               /\ shown # {}
               /\ \A k \in shown : \E j \in DOMAIN doubts'[k].messages :
                        IsApology(doubts'[k].messages[j])
               /\ \A k \in DOMAIN doubts' \ shown :
                    \A j \in DOMAIN doubts'[k].messages :
                        ~IsApology(doubts'[k].messages[j])]_vars

\* C10: every failure inside handleSubmitQuestion, handleSendMessage or
\* markAsSolved, a store failure while recording the apology included, is caught
\* inside the action and shown as a destructive notification: no action ends
\* with an error escaping its handler.
C10_NoErrorEscapes ==
    \A k \in DOMAIN dsLog :
        /\ ~dsLog[k].escaped
        /\ dsLog[k].failedAt # "" => dsLog[k].notified

\* the doubts created through the page (the seeded doubt has another question)
CreatedDoubts == {r \in doubtsTable : r.question \in Questions}
EventsOf(event, doubtId) ==
    {k \in DOMAIN dsPublished :
        dsPublished[k].event = event /\ dsPublished[k].doubtId = doubtId}

\* C12: store mutations and published events correspond one to one: once the
\* handlers are over, each doubt created in the store has exactly one
\* 'doubt-created' event and each doubt marked solved in the store exactly one
\* 'doubt-updated' event, and every event published describes a mutation the
\* store holds.
C12_EventPerMutation ==
    /\ \A k \in DOMAIN dsPublished :
          \E r \in doubtsTable :
              /\ r.id = dsPublished[k].doubtId
              /\ dsPublished[k].event = "doubt-updated" => r.solved
    /\ DsQuiet =>
          /\ \A r \in CreatedDoubts : Cardinality(EventsOf("doubt-created", r.id)) = 1
          /\ \A r \in doubtsTable :
                r.solved => Cardinality(EventsOf("doubt-updated", r.id)) = 1

\* disabled={!newQuestion.trim() || isGenerating || loading} of the submit
\* button; disabled={!newMessage.trim() || isGenerating} of the send button
SubmitDisabled == newQuestion = "" \/ isGenerating \/ dsLoading
SendDisabled == newMessage = "" \/ isGenerating
InFlight(op) == {i \in 1..MaxDoubtCalls : dsCalls[i].op = op}

\* C13: while an invocation of handleSubmitQuestion or handleSendMessage is in
\* flight its triggering control is disabled, so no second invocation of the
\* same action is in flight with it.
C13_ControlDisabledInFlight ==
    /\ InFlight("handleSubmitQuestion") # {} => SubmitDisabled
    /\ InFlight("handleSendMessage") # {} => SendDisabled
    /\ Cardinality(InFlight("handleSubmitQuestion")) <= 1
    /\ Cardinality(InFlight("handleSendMessage")) <= 1

\* invocation i calls the doubt-solver proxy in this step
ProxyInvoked(i) == dsCalls[i].pc # "invoke" /\ dsCalls'[i].pc = "invoke"
\* the user message of invocation i is in the store
QuestionStored(i) ==
    /\ dsCalls[i].resp \in doubt_messages
    /\ dsCalls[i].resp.sender = "user" /\ dsCalls[i].resp.content = dsCalls[i].text
    /\ dsCalls[i].op = "handleSubmitQuestion" =>
          /\ \E r \in doubtsTable : r.id = dsCalls[i].doubtData.id
          /\ dsCalls[i].resp.doubt_id = dsCalls[i].doubtData.id
    /\ dsCalls[i].op = "handleSendMessage" => dsCalls[i].resp.doubt_id = dsCalls[i].cSel.id

\* C15: the proxy is called only after the writes of the question have
\* succeeded: the step that calls it follows the successful insert of the user
\* message (and, in handleSubmitQuestion, of the doubt), whose rows the store
\* holds; an invocation whose insert failed never calls the proxy.
C15_ProxyAfterPersistedWrite ==
    [][\A i \in 1..MaxDoubtCalls :
          /\ ProxyInvoked(i) =>
                /\ dsCalls[i].pc = "messageDone" /\ ~dsCalls[i].err
                /\ QuestionStored(i)
          /\ (dsCalls[i].pc \in {"doubtDone", "messageDone"} /\ dsCalls[i].err) =>
                dsCalls'[i].pc \in {dsCalls[i].pc, "idle", "insertApology"}
          /\ dsCalls[i].pc \in {"insertApology", "apologyDone"} =>
                dsCalls'[i].pc \in {"idle", "insertApology", "apologyDone"}]_vars
\* one question failed at the insert of its message, the next one is at the proxy
C15_Witness ==
    /\ \E k \in DOMAIN dsLog : dsLog[k].failedAt = "message"
    /\ \E i \in 1..MaxDoubtCalls : dsCalls[i].pc = "invoke" /\ QuestionStored(i)

\* C16: marking a doubt solved has no reversal path: in no step does a doubt
\* that is solved in the store, in doubts or as selectedDoubt become unsolved
\* there.
C16_SolvedStaysSolved ==
    [][/\ \A r \in doubtsTable : r.solved =>
             \A q \in doubtsTable' : q.id = r.id => q.solved
       /\ \A k \in DOMAIN doubts : doubts[k].solved =>
             \A j \in DOMAIN doubts' : doubts'[j].id = doubts[k].id => doubts'[j].solved
       /\ (selectedDoubt.solved /\ selectedDoubt'.id = selectedDoubt.id)
             => selectedDoubt'.solved]_vars

\* =========================================================================
\*  Properties of the StudyPlanner and the Dashboard
\* =========================================================================
\* the steps at which a handler's store call, or the handler itself, succeeds
StoreSucceeds(i, op) ==
    /\ plCalls[i].op = op /\ plCalls[i].pc # "resume"
    /\ plCalls'[i].pc = "resume" /\ ~plCalls'[i].err
HandlerSucceeds(i, op) ==
    /\ PlAt(i, op, "resume") /\ ~plCalls[i].err
    /\ plCalls'[i].pc = "idle"

\* C2: a deleted session that is restored by a successful handleUndoDelete comes
\* back with the subject, topic, date, duration, notes, progress and completed it
\* had when it was deleted, under an identity that differs from the deleted one.
C2_UndoRestoresFields ==
    \A i \in 1..MaxPlannerCalls :
        PlAt(i, "handleUndoDelete", "resume") /\ ~plCalls[i].err =>
            LET deleted == plCalls[i].arg
                restored == FormatSession(plCalls[i].resp)
            IN /\ restored.subject = deleted.subject
               /\ restored.topic = deleted.topic
               /\ restored.date = deleted.date
               /\ restored.duration = deleted.duration
               /\ restored.notes = deleted.notes
               /\ restored.progress = deleted.progress
               /\ restored.completed = deleted.completed
               /\ restored.id # deleted.id

\* the identities the events received so far announced as deleted
DeletedIdentities(n) ==
    {published[k].sessionId : k \in {j \in 1..n : published[j].event = "session-deleted"}}

\* C3: once a deleted session has been restored by undo, no view holds the deleted
\* identity as a live record: it is neither in the planner's studySessions when
\* handleUndoDelete finishes, nor in the Dashboard's upcoming list when the
\* Dashboard has handled the session-restored event.
C3_NoLiveDeletedIdentity ==
    [][/\ \A i \in 1..MaxPlannerCalls :
            HandlerSucceeds(i, "handleUndoDelete") =>
                /\ plCalls[i].arg.id \notin Ids(studySessions')
                /\ plCalls[i].resp.id \in Ids(studySessions')
       /\ (delivered' = delivered + 1 /\ published[delivered'].event = "session-restored") =>
                DeletedIdentities(delivered') \cap Ids(upcomingStudySessions') = {}]_vars

\* the upcoming list a Dashboard load computes from the rows of the store
UpcomingFromStore(rows) ==
    LET data == SortRows(rows, TRUE)
    IN UpcomingOf([k \in DOMAIN data |-> FormatDashSession(data[k])])

\* C5: when the store call of markSessionComplete(S) succeeds, the row of S in
\* the store has progress 100 and completed true and a Dashboard load of that
\* store leaves S out of the upcoming list; when the handler then finishes, S is
\* in studySessions with progress 100 and completed true.
C5_MarkCompleteCompletes ==
    [][\A i \in 1..MaxPlannerCalls :
        /\ StoreSucceeds(i, "markSessionComplete") =>
            /\ \A r \in study_sessions' : r.id = plCalls[i].sid =>
                    r.progress = "100" /\ r.completed = "true"
            /\ plCalls[i].sid \notin Ids(UpcomingFromStore(study_sessions'))
        /\ HandlerSucceeds(i, "markSessionComplete") =>
            LET session == FindSession(studySessions', plCalls[i].sid)
            IN session.id = plCalls[i].sid /\ session.progress = 100 /\ session.completed]_vars

\* a session was marked complete, the handler has finished, and a Dashboard that
\* had loaded the session has handled the event
C5_Witness ==
    /\ ~dbLoading /\ ~plLoading
    /\ \E k \in 1..delivered :
        /\ published[k].event = "session-completed"
        /\ \E r \in study_sessions : r.id = published[k].sessionId /\ r.completed = "true"
        /\ FindSession(studySessions, published[k].sessionId).progress = 100
        /\ published[k].sessionId \notin Ids(upcomingStudySessions)
        /\ \E j \in 1..Len(studyProgress) : studyProgress[j].progress = 100

\* C6: a mounted Dashboard that receives session-completed{sessionId, subject} removes
\* that session, and no other, from its upcoming list and starts a re-read of the
\* subject's sessions; when the re-read returns, the subject's aggregate is the
\* one computed from the rows read.
C6_CompletedEventHandled ==
    [][/\ (delivered' = delivered + 1 /\ published[delivered'].event = "session-completed") =>
            LET payload == published[delivered']
            IN /\ upcomingStudySessions' =
                    SelectSeq(upcomingStudySessions, LAMBDA s : s.id # payload.sessionId)
               /\ \E j \in 1..MaxDashCalls :
                    /\ dbCalls[j].pc = "idle"
                    /\ dbCalls'[j].op = "updateSubjectProgress"
                    /\ dbCalls'[j].pc = "read"
                    /\ dbCalls'[j].subject = payload.subject
       /\ \A j \in 1..MaxDashCalls :
            (dbMounted /\ DbAt(j, "updateSubjectProgress", "resume") /\ ~dbCalls[j].err
                /\ dbCalls'[j].pc = "idle") =>
            \E k \in 1..Len(studyProgress') :
                /\ studyProgress'[k].subject = dbCalls[j].subject
                /\ studyProgress'[k].progress = ProgressOnUpdate(dbCalls[j].data)
                /\ studyProgress'[k].totalSessions = Len(dbCalls[j].data)]_vars

\* the Dashboard had loaded two upcoming sessions (the aggregate it shows is
\* still the one of the load), has just handled the session-completed event of
\* one of them and kept the other, and the re-read of the subject is in flight
C6_Witness ==
    /\ ~dbLoading /\ delivered > 0
    /\ published[delivered].event = "session-completed"
    /\ dbToast = "Session completed"
    /\ published[delivered].sessionId \notin Ids(upcomingStudySessions)
    /\ published[delivered].sessionId \in {r.id : r \in study_sessions}
    /\ Len(upcomingStudySessions) = 1
    /\ \E k \in 1..Len(studyProgress) :
        /\ studyProgress[k].subject = published[delivered].subject
        /\ studyProgress[k].progress = 50
    /\ \E j \in 1..MaxDashCalls :
        DbAt(j, "updateSubjectProgress", "read")
        /\ dbCalls[j].subject = published[delivered].subject

PlannerOps == {"onSubmit", "updateSessionProgress", "markSessionComplete", "deleteSession",
               "handleUndoDelete"}
ErrorTitles == {"Error creating study session", "Error updating progress",
                "Error updating session", "Error deleting study session",
                "Error restoring study session"}
\* the store call of invocation i has failed and its catch block runs in this step
FailureHandled(i) ==
    /\ plCalls[i].op \in PlannerOps /\ plCalls[i].pc = "resume" /\ plCalls[i].err
    /\ plCalls'[i].pc = "idle"
\* the store call of invocation i fails in this step
StoreFails(i) ==
    /\ plCalls[i].op \in PlannerOps /\ plCalls[i].pc \in {"insert", "update", "delete"}
    /\ plCalls'[i].pc = "resume" /\ plCalls'[i].err

WriteOutstanding(i) == plCalls[i].op = "updateSessionProgress" /\ plCalls[i].pc = "update"
\* the store write of invocation i has been applied
WriteApplied(i) ==
    plCalls[i].op = "updateSessionProgress" /\ plCalls[i].pc = "resume" /\ ~plCalls[i].err

\* C14: two progress changes issued in sequence on one session are processed
\* in issue order: their store writes are never outstanding together, and no
\* write is applied after the write of a change issued later, so the value
\* issued last is the one that stays.
C14_ProgressInIssueOrder ==
    /\ [](\A i, j \in 1..MaxPlannerCalls :
            (i # j /\ WriteOutstanding(i) /\ WriteOutstanding(j))
                => plCalls[i].sid # plCalls[j].sid)
    /\ [][\A i, j \in 1..MaxPlannerCalls :
            (StoreSucceeds(i, "updateSessionProgress") /\ WriteApplied(j)
                /\ plCalls[i].sid = plCalls[j].sid)
                => plCalls[j].seq < plCalls[i].seq]_vars

\* every event sent has been handled and no handler or read is outstanding
AllResolved ==
    /\ \A i \in 1..MaxPlannerCalls : plCalls[i].pc = "idle"
    /\ \A i \in 1..MaxDashCalls : dbCalls[i].pc = "idle"
    /\ delivered = Len(published)
\* the aggregate of a subject computed from the rows the store holds
StoreAggregate(subject) ==
    ProgressOnUpdate(SortRows({r \in study_sessions : r.subject = subject}, TRUE))

\* the read of call i has returned its rows and its continuation is due
RefetchReturns(i) ==
    /\ dbMounted
    /\ DbAt(i, "updateSubjectProgress", "resume")
    /\ ~dbCalls[i].err
    /\ dbCalls'[i].pc = "idle"

\* C17: after any sequence of session events for a subject, once every
\* updateSubjectProgress call has resolved, in whatever order the calls
\* complete, the Dashboard's studyProgress entry of that subject equals the
\* aggregate of the sessions the store holds: the step in which the last
\* successful read of a subject is applied leaves that entry at the aggregate.
C17_AggregateAfterRefetch ==
    [][\A i \in 1..MaxDashCalls :
          (RefetchReturns(i) /\ AllResolved')
              => \A n \in DOMAIN studyProgress' :
                     studyProgress'[n].subject = dbCalls[i].subject =>
                         studyProgress'[n].progress = StoreAggregate(dbCalls[i].subject)]_vars

\* a handler of the 'dashboard-updates' subscription runs in this step
EventHandled == delivered' = delivered + 1
\* call i is a request to the store that this step issues
ReadIssued(i) ==
    /\ dbCalls[i].pc = "idle"
    /\ dbCalls'[i].pc = "read"

\* C18: on receipt of a broadcast event the Dashboard issues no read to the
\* store: the step that handles an event starts no store request.
C18_NoReadOnReceipt ==
    [][EventHandled => \A i \in 1..MaxDashCalls : ~ReadIssued(i)]_vars

\* what the Dashboard holds in its state hooks
DashboardState ==
    <<dbLoading, upcomingStudySessions, recentDoubts, studyProgress, updatingProgress>>

\* C19: after the Dashboard unmounts its state is never mutated again: no
\* handler of 'dashboard-updates' runs for a later event, and a store request
\* or timer that was outstanding at the unmount has no effect when it
\* resolves, neither on the state nor as a notification.
C19_NoEffectAfterUnmount ==
    [][~dbMounted => UNCHANGED <<DashboardState, delivered, dbToast>>]_vars

\* the id of the session an event of the channel names
NamedSession(ev) ==
    IF ev.event \in {"session-created", "session-restored"} THEN ev.session.id ELSE ev.sessionId

\* C26: the handlers for session-created, session-restored and
\* session-updated change only the entry of the session the event names:
\* every other session of the upcoming list is still in the list after the
\* event (the list being below its cap), whenever the event arrives
\* relative to the initial load.
C26_OtherSessionsKept ==
    [][(EventHandled
          /\ NextEvent.event \in {"session-created", "session-restored", "session-updated"}
          /\ Len(upcomingStudySessions) < MaxUpcoming)
        => \A k \in DOMAIN upcomingStudySessions :
              upcomingStudySessions[k].id # NamedSession(NextEvent) =>
                 \E j \in DOMAIN upcomingStudySessions' :
                    upcomingStudySessions'[j] = upcomingStudySessions[k]]_vars

\* C29: in every reachable state of the Dashboard, after any sequence of
\* initial load and broadcast events, the upcoming list has at most 4
\* sessions and none that is completed, the recent-doubts list has at most 2
\* entries, and the subject-progress list has at most 3 entries and no
\* subject twice.
C29_ListsWithinCaps ==
    /\ Len(upcomingStudySessions) <= MaxUpcoming
    /\ \A k \in DOMAIN upcomingStudySessions : ~upcomingStudySessions[k].completed
    /\ Len(recentDoubts) <= MaxRecentDoubts
    /\ Len(studyProgress) <= MaxSubjects
    /\ \A j, k \in DOMAIN studyProgress :
          studyProgress[j].subject = studyProgress[k].subject => j = k

\* the load cut all three lists to their caps, and then a new doubt and a
\* session of a fourth subject were announced and handled
C29_Witness ==
    /\ delivered = 2
    /\ \A i \in 1..MaxDashCalls : dbCalls[i].pc = "idle"
    /\ Len(upcomingStudySessions) = MaxUpcoming
    /\ Len(recentDoubts) = MaxRecentDoubts /\ recentDoubts[1] = RemoteDoubt
    /\ Len(studyProgress) = MaxSubjects
    /\ \E k \in DOMAIN published : published[k].event = "session-created"

\* C20: in every reachable state every session of the store and of the
\* planner's studySessions is completed exactly when its progress is 100,
\* whatever the order and interleaving of onSubmit, updateSessionProgress,
\* markSessionComplete, deleteSession and handleUndoDelete.
C20_CompletedIffFull ==
    /\ \A r \in study_sessions : (r.completed = "true") <=> (r.progress = "100")
    /\ \A k \in DOMAIN studySessions :
           studySessions[k].completed <=> (studySessions[k].progress = 100)

\* the planner shows a completed and an open session that the store holds as such
C20_Witness ==
    /\ \E r \in study_sessions : r.completed = "true" /\ r.progress = "100"
    /\ \E r \in study_sessions : r.completed = "false" /\ r.progress # "100"
    /\ \E k \in DOMAIN studySessions :
           studySessions[k].completed /\ studySessions[k].progress = 100
    /\ \E k \in DOMAIN studySessions :
           ~studySessions[k].completed /\ studySessions[k].progress < 100
    /\ Len(published) > 0

\* call i is a handleUndoDelete whose insert the store has accepted
Restored(i) ==
    /\ plCalls[i].op = "handleUndoDelete"
    /\ plCalls[i].pc = "resume"
    /\ ~plCalls[i].err

\* C22: the undo of a deleted session is single-shot: handleUndoDelete inserts
\* at most one restored record for one deleted session, however often the
\* Undo button is activated.
C22_UndoSingleShot ==
    \A i, j \in 1..MaxPlannerCalls :
        (i # j /\ Restored(i) /\ Restored(j)) => plCalls[i].arg.id # plCalls[j].arg.id

\* =========================================================================
\*  Properties of the generation forms
\* =========================================================================
\* C21: an empty or whitespace-only input is blocked before any proxy call
\* is issued: no call of generate-flashcards or summarize-notes carries a text
\* that is empty after trim.
C21_BlankInputBlocked ==
    \A k \in DOMAIN invoked : ~IsBlank(invoked[k].text)

\* =========================================================================
\*  Specifications: one per page of the application.  The pages share no
\*  client state; the state of the pages a specification leaves out is frozen.
\* =========================================================================

FlashClosed ==
    /\ flashcard_decks = {} /\ flashcards = {} /\ decks = <<>> /\ selectedDeck = NoDeck
    /\ fgCalls = [i \in 1..MaxCalls |-> FgIdle] /\ fgToast = NoToast /\ fgOps = 0
    /\ fgLog = <<>> /\ fgLoading = TRUE
PlannerClosed ==
    /\ tz = 0 /\ study_sessions = {} /\ sessionSeq = 0 /\ studySessions = <<>>
    /\ plLoading = TRUE /\ plCalls = [i \in 1..MaxPlannerCalls |-> PlIdle] /\ plToast = NoPlToast
    /\ plOps = 0 /\ published = <<>>
AggregateClosed == aggRows = <<>> /\ aggLoad = NotComputed /\ aggUpdate = NotComputed
DashboardClosed ==
    /\ dbLoading = TRUE /\ upcomingStudySessions = <<>> /\ recentDoubts = <<>>
    /\ studyProgress = <<>> /\ updatingProgress = NULL
    /\ dbCalls = [i \in 1..MaxDashCalls |-> DbIdle] /\ dbToast = "" /\ dbTimers = 0
    /\ dbMounted = FALSE /\ delivered = 0
DoubtsClosed ==
    /\ doubtsTable = {} /\ doubt_messages = {} /\ storeClock = 0 /\ doubts = <<>>
    /\ selectedDoubt = NoDoubt /\ newQuestion = "" /\ newMessage = "" /\ isGenerating = FALSE
    /\ dsLoading = TRUE /\ dsCalls = [i \in 1..MaxDoubtCalls |-> DsIdle]
    /\ dsToast = NoDsToast /\ dsLog = <<>> /\ dsPublished = <<>> /\ dsOps = 0

FormsClosed == InitForms

ProxyClosed ==
    /\ pxRequest = [keySet |-> TRUE, text |-> "notes"]
    /\ pxUpstream = [ok |-> TRUE, hasText |-> TRUE]
    /\ generatedText = <<>> /\ pxPc = "done" /\ pxResponse = NoResponse

\* the planner in one tab and the Dashboard in another
NextStudy == NextPlanner \/ NextDashboard

InitFlashPage ==
    /\ InitFlash /\ PlannerClosed /\ AggregateClosed /\ DashboardClosed /\ DoubtsClosed
    /\ ProxyClosed /\ FormsClosed
InitStudyPages ==
    /\ (InitPlanner \/ InitAfterDelete) /\ InitDashboard /\ FlashClosed /\ AggregateClosed /\ DoubtsClosed
    /\ ProxyClosed /\ FormsClosed
InitAggregatePage ==
    /\ InitAggregate /\ FlashClosed /\ PlannerClosed /\ DashboardClosed /\ DoubtsClosed
    /\ ProxyClosed /\ FormsClosed
InitDoubtPage ==
    /\ InitDoubt /\ FlashClosed /\ PlannerClosed /\ AggregateClosed /\ DashboardClosed
    /\ ProxyClosed /\ FormsClosed
InitProxyFunction ==
    /\ InitProxy /\ FlashClosed /\ PlannerClosed /\ AggregateClosed /\ DashboardClosed
    /\ DoubtsClosed /\ FormsClosed
\* the Dashboard is opened on a store other pages have filled
InitOpenDashboard ==
    /\ InitDashboard
    /\ tz \in TzOffsets
    /\ study_sessions = DashSeedSessions
    /\ sessionSeq = Cardinality(study_sessions)
    /\ studySessions = <<>> /\ plLoading = TRUE
    /\ plCalls = [i \in 1..MaxPlannerCalls |-> PlIdle]
    /\ plToast = NoPlToast /\ plOps = 0 /\ published = <<>>
    /\ doubtsTable = DashSeedDoubts
    /\ doubt_messages = {} /\ storeClock = 0 /\ doubts = <<>>
    /\ selectedDoubt = NoDoubt /\ newQuestion = "" /\ newMessage = "" /\ isGenerating = FALSE
    /\ dsLoading = TRUE /\ dsCalls = [i \in 1..MaxDoubtCalls |-> DsIdle]
    /\ dsToast = NoDsToast /\ dsLog = <<>> /\ dsPublished = <<>> /\ dsOps = 0

InitOpenDashboardPage ==
    /\ InitOpenDashboard /\ FlashClosed /\ AggregateClosed /\ ProxyClosed /\ FormsClosed
InitFormsPage ==
    /\ InitForms /\ FlashClosed /\ PlannerClosed /\ AggregateClosed /\ DashboardClosed
    /\ DoubtsClosed /\ ProxyClosed

\* ---- the four views from their mount to the end of the initial load
\* the store of FlashcardGenerator when the page is opened
SeedDecks ==
    { [decks |-> {}, cards |-> {}],
      [decks |-> {[id |-> 1, name |-> "Deck", subject |-> "Math"]},
       cards |-> {[id |-> 101, deck_id |-> 1, front |-> "q", back |-> "a"]}] }
\* a user is signed in, with no study session yet: each mount effect has
\* started its read, and every view shows its loading state (loading is
\* useState(true))
MountedSignedIn ==
    /\ tz \in TzOffsets /\ study_sessions = {} /\ sessionSeq = 0 /\ studySessions = <<>>
    /\ plLoading = TRUE
    /\ plCalls = [i \in 1..MaxPlannerCalls |->
                    IF i = 1 THEN [PlIdle EXCEPT !.op = "fetch", !.pc = "read"] ELSE PlIdle]
    /\ plToast = NoPlToast /\ plOps = 0 /\ published = <<>>
    /\ InitDashboard /\ InitDoubt
    /\ \E seed \in SeedDecks : flashcard_decks = seed.decks /\ flashcards = seed.cards
    /\ decks = <<>> /\ selectedDeck = NoDeck /\ fgLoading = TRUE
    /\ fgCalls = [i \in 1..MaxCalls |->
                    IF i = 1 THEN [FgIdle EXCEPT !.op = "fetchDecks", !.pc = "read"] ELSE FgIdle]
    /\ fgToast = NoToast /\ fgOps = 0 /\ fgLog = <<>>
\* no user is signed in: fetchStudySessions, fetchDoubts and fetchDecks
\* return at "if (!user) return" before any state is set (StudyPlanner.tsx
\* 88, part_000 43, FlashcardGenerator.tsx 24); the mount effect of the
\* Dashboard calls setLoading(false) (Dashboard.tsx 52-55)
MountedSignedOut ==
    /\ PlannerClosed /\ DoubtsClosed /\ FlashClosed
    /\ dbLoading = FALSE /\ upcomingStudySessions = <<>> /\ recentDoubts = <<>>
    /\ studyProgress = <<>> /\ updatingProgress = NULL
    /\ dbCalls = [i \in 1..MaxDashCalls |-> DbIdle] /\ dbToast = "" /\ dbTimers = 0
    /\ dbMounted = TRUE /\ delivered = 0
InitMount ==
    /\ (MountedSignedIn \/ MountedSignedOut)
    /\ AggregateClosed /\ ProxyClosed /\ FormsClosed
\* the store answers every read and each continuation runs
NextMount ==
    \/ \E i \in 1..MaxPlannerCalls, ok \in BOOLEAN : FetchSessionsStore(i, ok) /\ OnlyPlanner
    \/ \E i \in 1..MaxPlannerCalls : FetchSessionsResume(i) /\ OnlyPlanner
    \/ \E i \in 1..MaxDashCalls, ok \in BOOLEAN : FetchDashReadSessions(i, ok) /\ OnlyDashboard
    \/ \E i \in 1..MaxDashCalls, ok \in BOOLEAN : FetchDashReadDoubts(i, ok) /\ OnlyDashboard
    \/ \E i \in 1..MaxDashCalls : FetchDashResume(i) /\ OnlyDashboard
    \/ \E i \in 1..MaxDoubtCalls, ok \in BOOLEAN : FetchDoubtsRead(i, ok) /\ OnlyDoubt
    \/ \E i \in 1..MaxDoubtCalls, ok \in BOOLEAN : FetchMessagesRead(i, ok) /\ OnlyDoubt
    \/ \E i \in 1..MaxDoubtCalls : FetchDoubtsNext(i) /\ OnlyDoubt
    \/ \E i \in 1..MaxCalls, ok \in BOOLEAN : FetchDecksReturn(i, ok) /\ OnlyFlash

\* C30: every view that mounts in Loading eventually reaches Ready, whether
\* its initial read succeeds, fails, or is skipped because no user is signed
\* in.
C30_LoadingReachesReady ==
    /\ <>(~plLoading)
    /\ <>(~dbLoading)
    /\ <>(~dsLoading)
    /\ <>(~fgLoading)

SpecFlash == InitFlashPage /\ [][NextFlash]_vars
SpecPlanner == InitStudyPages /\ [][NextStudy]_vars
SpecAggregate == InitAggregatePage /\ [][NextAggregate]_vars
SpecDoubt == InitDoubtPage /\ [][NextDoubt]_vars
SpecProxy == InitProxyFunction /\ [][NextProxy]_vars
SpecDashboard == InitOpenDashboardPage /\ [][NextOpenDashboard]_vars
SpecForms == InitFormsPage /\ [][NextForms]_vars
SpecMount == InitMount /\ [][NextMount]_vars /\ WF_vars(NextMount)
====
